---- MODULE Spec2Model ----
(***************************************************************************)
(* Model of the ChatV2 real-time server (src/src/server/index.ts): the     *)
(* connection registry, the per-connection attachment, the frame handlers, *)
(* the broadcast helpers and the heartbeat sweep.                          *)
(*                                                                         *)
(* A socket on which the server has called close() stays in                *)
(* ctx.getWebSockets() until its close event is delivered (status          *)
(* "closing"); connection.send on such a socket throws.  No handler wraps  *)
(* a single send in try/catch, so the exception leaves the fan-out loop.   *)
(*                                                                         *)
(* The client part models one instance of the useWebSocket hook            *)
(* (src/unnamed/part_001, lines 412-713): its refs, the PartySockets it    *)
(* creates and the reconnect timeouts it sets.  A PartySocket that closes  *)
(* without close() having been called may connect again by itself, and     *)
(* reports CLOSED until it does.  The server end of a socket of the hook   *)
(* is the one of a valid session whose user is a member of every room; the *)
(* server handles a frame when it is sent, its answer arrives later.       *)
(* client.wanted is history: the rooms the caller has joined with joinRoom *)
(* and not left with leaveRoom since.  The caller's acknowledgements are   *)
(* numbered in the order of the calls of ackMessage: client.requested      *)
(* counts them, client.buffered holds those that were queued, and          *)
(* client.ackLog is the message_ack frames sent so far.  client.flushDue   *)
(* says that the effect that sends the queue has to run: connectionState   *)
(* has become "connected" with acknowledgements queued.                    *)
(*                                                                         *)
(* The chat page (src/src/client/db.ts) is the page of user u1: app.messages *)
(* is its messages state, app.posting the POST /api/messages under way.    *)
(* A temp id "temp-<Date.now()>" is a negative number, one per message     *)
(* sent.  The field stored of an entry is history: the id of the stored    *)
(* message the entry shows, 0 while the message is not stored.             *)
(***************************************************************************)
EXTENDS Integers, Sequences, FiniteSets, TLC

\* ------------------------------------------------------------------ bounds
MaxTicks == 2
MaxMsgs == 1
MaxExtra == 3

\* ------------------------------------------------------- program constants
HEARTBEAT_TIMEOUT == 60000

\* The sockets of the registry, in the order ctx.getWebSockets() lists them.
\* Two of them carry the traffic of most parts; the third is the second
\* socket of one user where presence needs it.
ConnOrder == <<1, 2, 3>>
AllConnIds == {ConnOrder[i] : i \in 1..Len(ConnOrder)}
ConnIds == {ConnOrder[1], ConnOrder[2]}
HISTORY_LIMIT == 50
SYNC_LIMIT == 100
UserIds == {"u1", "u2"}
RoomIds == {"r1", "r2"}
ValidApiKey == "default-bot-api-key"
ApiKeys == {ValidApiKey, "wrong-key"}
SessionIds == {"s1", "s2", "sx", "s0"}

\* The sessions table: s1 and s2 are long-lived, sx expires at time 1, s0 is
\* not stored.
Sessions ==
    { [id |-> "s1", user_id |-> "u1", expires_at |-> 604800000],
      [id |-> "s2", user_id |-> "u2", expires_at |-> 604800000],
      [id |-> "sx", user_id |-> "u1", expires_at |-> 1] }

VARIABLES
    conn,          \* registry: per socket, its status and attachment
    lastSignal,    \* per unauthenticated socket: time of open / last ping or heartbeat
    now,           \* Date.now()
    messages,      \* the messages table, in insertion order
    room_members,  \* the room_members table: set of <<room_id, user_id>>
    rooms,         \* the rooms table: set of [id, type]
    sent,          \* the frames sent by the last step, in order: [to, frame]
    last,          \* the last step: operation, socket, argument, outcome
    client,        \* the refs and state of one useWebSocket hook instance
    sockets,       \* the PartySockets the hook has created
    timers,        \* the reconnect timeouts the hook has set
    closes,        \* history: close events since the last open event
    app            \* the chat page: the messages it shows, the selected room

clientVars == <<client, sockets, timers, closes, app>>
vars == <<conn, lastSignal, now, messages, room_members, rooms, sent, last, clientVars>>

Min(a, b) == IF a < b THEN a ELSE b
LowestOf(S) == CHOOSE x \in S : \A y \in S : x <= y

\* ------------------------------------------------- client: state at mount
RECONNECT_BASE_DELAY == 3000
MAX_RECONNECT_DELAY == 30000
\* The close events in a row.
MaxCloses == 5
\* The sockets and the timeouts that exist at once.
SocketIds == 1..3
TimerIds == 1..2
\* The sessionId prop of the hook; "" is null.
ClientSessions == {"", "s1"}
\* A socket that is closed for good; retry marks a closed socket that the
\* PartySocket will reopen by itself.  torn is history: the socket was closed
\* by the cleanup of the connection effect.  subscribed is the server's
\* subscribedRooms for the connection, inbox the frames on their way to the
\* hook.
NoSocket == [readyState |-> "CLOSED", sessionId |-> "", retry |-> FALSE,
             torn |-> FALSE, subscribed |-> <<>>, inbox |-> <<>>]
\* The frames on their way to the hook on one socket.
MaxInFlight == 2
\* The acknowledgements the caller requests.
MaxAcks == 2
\* The messages the chat page sends, and the rows the store holds then.
MaxTemps == 2
MaxStored == 2
\* The addMessage calls of the local cache that have not finished.
MaxCalls == 2
NoTimer == [pending |-> FALSE, delay |-> 0, sessionId |-> ""]
InitClient ==
    /\ client = [mounted |-> "no", sessionId |-> "", socketRef |-> 0,
                 isConnecting |-> FALSE, isClosed |-> FALSE,
                 reconnectAttempt |-> 0, reconnectTimeoutRef |-> 0,
                 heartbeatIntervalRef |-> 0, joinedRooms |-> {},
                 connectionState |-> "disconnected",
                 pendingAcks |-> <<>>, flushDue |-> FALSE,
                 wanted |-> {}, requested |-> 0, buffered |-> {}, ackLog |-> <<>>]
    /\ sockets = [s \in SocketIds |-> NoSocket]
    /\ timers = [t \in TimerIds |-> NoTimer]
    /\ closes = 0
    /\ app = [messages |-> <<>>, selectedRoom |-> "", posting |-> <<>>, temps |-> 0,
              cache |-> [r \in RoomIds |-> <<>>], calls |-> <<>>]

\* ------------------------------------------------------------- attachments
NoAtt == [type |-> "none", id |-> "", rooms |-> <<>>, lastPing |-> 0]
UserAtt(u, t) == [type |-> "user", id |-> u, rooms |-> <<>>, lastPing |-> t]
BotAtt(t) == [type |-> "bot", id |-> "bot", rooms |-> <<>>, lastPing |-> t]

Includes(s, x) == \E i \in 1..Len(s) : s[i] = x
Push(s, x) == Append(s, x)
Filter(s, x) == SelectSeq(s, LAMBDA y : y # x)

\* ------------------------------------------------------------------ frames
AuthSuccessUser(u) == [type |-> "auth_success", user_id |-> u]
AuthSuccessBot == [type |-> "auth_success"]
AuthError(msg) == [type |-> "auth_error", message |-> msg]
ErrorFrame(msg) == [type |-> "error", message |-> msg]
Pong(t) == [type |-> "pong", timestamp |-> t]
UserStatusFrame(u, status) ==
    IF status = "online" THEN [type |-> "user_online", user_id |-> u]
    ELSE [type |-> "user_offline", user_id |-> u]
To(c, f) == [to |-> c, frame |-> f]

\* ------------------------------------------------------------------- store
\* A lookup that also accepts a session expiring at this very instant.
ValidSessions_Inclusive(sid, t) == {s \in Sessions : s.id = sid /\ s.expires_at >= t}
ValidSessions(sid, t) == {s \in Sessions : s.id = sid /\ s.expires_at > t}
MemberIds(rm, roomId) == {p[2] : p \in {q \in rm : q[1] = roomId}}

\* --------------------------------------------------------------- sending
\* getWebSockets(): every socket not yet closed, in registry order.
GetWebSockets(cn) == SelectSeq(ConnOrder, LAMBDA c : cn[c].status # "closed")

\* connection.send throws on a socket the server has already closed.
SendThrows(cn, c) == cn[c].status # "open"

\* Run a list of sends in order: the first send that throws ends the list.
FirstThrow(cn, q) ==
    IF \E i \in 1..Len(q) : SendThrows(cn, q[i].to)
    THEN CHOOSE i \in 1..Len(q) :
            /\ SendThrows(cn, q[i].to)
            /\ \A j \in 1..(i - 1) : ~SendThrows(cn, q[j].to)
    ELSE Len(q) + 1
SendAll(cn, q) ==
    [out |-> SubSeq(q, 1, FirstThrow(cn, q) - 1), threw |-> FirstThrow(cn, q) <= Len(q)]

\* broadcastUserStatus: to every socket with a user attachment of another user.
StatusRecipient(cn, c, userId) ==
    cn[c].att.type = "user" /\ cn[c].att.id # userId
BroadcastUserStatus(cn, userId, status) ==
    LET ws == GetWebSockets(cn)
        rcpt == SelectSeq(ws, LAMBDA c : StatusRecipient(cn, c, userId))
    IN  [i \in 1..Len(rcpt) |-> To(rcpt[i], UserStatusFrame(userId, status))]

\* onMessage: try { handler } catch { connection.send(error) }.
OnMessageSends(cn, c, q) ==
    LET r == SendAll(cn, q)
    IN  IF r.threw THEN Append(r.out, To(c, ErrorFrame("Invalid message format")))
        ELSE r.out

Step(op, c, arg, threw) ==
    [op |-> op, c |-> c, arg |-> arg, threw |-> threw]

\* -------------------------------------------------------------------- Init
Init ==
    /\ conn = [c \in AllConnIds |-> [status |-> "closed", att |-> NoAtt]]
    /\ lastSignal = [c \in AllConnIds |-> 0]
    /\ now = 0
    /\ messages = <<>>
    /\ room_members = {<<"r1", "bot">>, <<"r1", "u1">>, <<"r2", "u1">>, <<"r2", "u2">>}
    /\ rooms = {[id |-> "r1", type |-> "bot"], [id |-> "r2", type |-> "group"]}
    /\ sent = <<>>
    /\ last = Step("start", 0, "", FALSE)
    /\ InitClient

\* ----------------------------------------------------------------- actions
\* A socket is accepted: no attachment yet.
OnConnect(c) ==
    /\ conn[c].status = "closed"
    /\ \A d \in ConnIds : d < c => conn[d].status # "closed"
    /\ conn' = [conn EXCEPT ![c] = [status |-> "open", att |-> NoAtt]]
    /\ lastSignal' = [lastSignal EXCEPT ![c] = now]
    /\ sent' = <<>>
    /\ last' = Step("connect", c, "", FALSE)
    /\ UNCHANGED <<now, messages, room_members, rooms, clientVars>>

\* handleUserAuth
HandleUserAuth(c, sessionId) ==
    /\ conn[c].status = "open"
    /\ LET sessions == ValidSessions(sessionId, now)
       IN  IF sessions = {}
           THEN /\ sent' = <<To(c, AuthError("Invalid session"))>>
                /\ UNCHANGED <<conn, lastSignal>>
           ELSE LET session == CHOOSE s \in sessions : TRUE
                    cn == [conn EXCEPT ![c].att = UserAtt(session.user_id, now)]
                IN  /\ conn' = cn
                    /\ lastSignal' = [lastSignal EXCEPT ![c] = 0]
                    /\ sent' = OnMessageSends(cn, c,
                                  <<To(c, AuthSuccessUser(session.user_id))>>
                                  \o BroadcastUserStatus(cn, session.user_id, "online"))
    /\ last' = Step("auth", c, "", FALSE)
    /\ UNCHANGED <<now, messages, room_members, rooms, clientVars>>

\* handleBotAuth without the close() of the mismatch branch.
HandleBotAuth_NoClose(c, apiKey) ==
    /\ conn[c].status = "open"
    /\ IF apiKey # ValidApiKey
       THEN /\ sent' = <<To(c, AuthError("Invalid API key"))>>
            /\ UNCHANGED <<conn, lastSignal>>
       ELSE /\ conn' = [conn EXCEPT ![c].att = BotAtt(now)]
            /\ lastSignal' = [lastSignal EXCEPT ![c] = 0]
            /\ sent' = <<To(c, AuthSuccessBot)>>
    /\ last' = Step("bot_auth", c, "", FALSE)
    /\ UNCHANGED <<now, messages, room_members, rooms, clientVars>>

\* handleBotAuth
HandleBotAuth(c, apiKey) ==
    /\ conn[c].status = "open"
    /\ IF apiKey # ValidApiKey
       THEN /\ sent' = <<To(c, AuthError("Invalid API key"))>>
            /\ conn' = [conn EXCEPT ![c].status = "closing"]
            /\ UNCHANGED lastSignal
       ELSE /\ conn' = [conn EXCEPT ![c].att = BotAtt(now)]
            /\ lastSignal' = [lastSignal EXCEPT ![c] = 0]
            /\ sent' = <<To(c, AuthSuccessBot)>>
    /\ last' = Step("bot_auth", c, "", FALSE)
    /\ UNCHANGED <<now, messages, room_members, rooms, clientVars>>

\* handlePing and handleHeartbeat: lastPing is kept in the attachment only.
Touch(cn, c, t) ==
    IF cn[c].att.type # "none" THEN [cn EXCEPT ![c].att.lastPing = t] ELSE cn

HandlePing(c) ==
    /\ conn[c].status = "open"
    /\ conn' = Touch(conn, c, now)
    /\ lastSignal' = [lastSignal EXCEPT ![c] = IF conn[c].att.type = "none" THEN now ELSE 0]
    /\ sent' = <<To(c, Pong(now))>>
    /\ last' = Step("ping", c, "", FALSE)
    /\ UNCHANGED <<now, messages, room_members, rooms, clientVars>>

HandleHeartbeat(c) ==
    /\ conn[c].status = "open"
    /\ conn' = Touch(conn, c, now)
    /\ lastSignal' = [lastSignal EXCEPT ![c] = IF conn[c].att.type = "none" THEN now ELSE 0]
    /\ sent' = <<>>
    /\ last' = Step("heartbeat", c, "", FALSE)
    /\ UNCHANGED <<now, messages, room_members, rooms, clientVars>>

\* startHeartbeatCheck: one run of the interval callback.
Stale(att, t) ==
    /\ att.type \in {"user", "bot"}
    /\ t - att.lastPing > HEARTBEAT_TIMEOUT
HeartbeatCheck ==
    /\ conn' = [c \in AllConnIds |->
                  IF conn[c].status # "closed" /\ Stale(conn[c].att, now)
                  THEN [conn[c] EXCEPT !.status = "closing"]
                  ELSE conn[c]]
    /\ sent' = <<>>
    /\ last' = Step("sweep", 0, "", FALSE)
    /\ UNCHANGED <<lastSignal, now, messages, room_members, rooms, clientVars>>

\* onClose: the close event of a socket, after the peer closed it (status
\* "open") or after the server closed it (status "closing").
OnCloseSends(cn, c) ==
    IF cn[c].att.type = "user"
    THEN SendAll(cn, BroadcastUserStatus(cn, cn[c].att.id, "offline"))
    ELSE [out |-> <<>>, threw |-> FALSE]
OnClose(c) ==
    /\ conn[c].status # "closed"
    /\ conn' = [conn EXCEPT ![c] = [status |-> "closed", att |-> NoAtt]]
    /\ lastSignal' = [lastSignal EXCEPT ![c] = 0]
    /\ sent' = OnCloseSends(conn, c).out
    /\ last' = Step(IF conn[c].status = "open" THEN "peer_close" ELSE "close", c,
                    IF conn[c].att.type = "user" THEN conn[c].att.id ELSE conn[c].att.type,
                    OnCloseSends(conn, c).threw)
    /\ UNCHANGED <<now, messages, room_members, rooms, clientVars>>

\* ------------------------------------------------------------ room frames
RoomJoined(r) == [type |-> "room_joined", room_id |-> r]
RoomLeft(r) == [type |-> "room_left", room_id |-> r]
RoomMessages(r, ms, us) ==
    [type |-> "room_messages", room_id |-> r, messages |-> ms, users |-> us]
MessageSent(id, ext) == [type |-> "message_sent", message_id |-> id, external_id |-> ext]
NewMessage(m) == [type |-> "new_message", message |-> m, user |-> m.user_id]
PluginMessage(roomId, m) ==
    [type |-> "message",
     message |-> [room_id |-> roomId, user_id |-> m.user_id,
                  content |-> m.content, timestamp |-> m.created_at]]

\* A row of the messages table, and the message object the handlers broadcast.
Row(id, roomId, userId, content, t, source, ext) ==
    [id |-> id, room_id |-> roomId, user_id |-> userId, content |-> content,
     content_type |-> "text", created_at |-> t, source |-> source,
     external_id |-> ext, acknowledged |-> FALSE]
Wire_Epoch(id, roomId, userId, content, t, source) ==
    [id |-> id, room_id |-> roomId, user_id |-> userId, content |-> content,
     content_type |-> "text", created_at |-> 0, source |-> source]
Wire(id, roomId, userId, content, t, source) ==
    [id |-> id, room_id |-> roomId, user_id |-> userId, content |-> content,
     content_type |-> "text", created_at |-> t, source |-> source]
GenerateId(ms) == Len(ms) + 1

Reverse_Kept(s) == s
Reverse(s) == [i \in 1..Len(s) |-> s[Len(s) + 1 - i]]
Take(s, n) == SubSeq(s, 1, IF Len(s) < n THEN Len(s) ELSE n)
\* The rows of a room, in the order the table stores them.
RoomRows(ms, roomId) == SelectSeq(ms, LAMBDA m : m.room_id = roomId)
\* ORDER BY created_at ASC / DESC.  SQL leaves the order of rows with equal
\* created_at open: TieRules are the two orders the engine may settle them in
\* (oldest row first, or newest row first).
TieRules == {"oldest-first", "newest-first"}
\* The rows with created_at = t, in the order the tie rule gives them.
SameTime(ms, t, tie) ==
    LET rows == SelectSeq(ms, LAMBDA m : m.created_at = t)
    IN  IF tie = "oldest-first" THEN rows
        ELSE [i \in 1..Len(rows) |-> rows[Len(rows) + 1 - i]]
\* The rows whose created_at is in the set ts, sorted: the rows of the middle
\* value of ts, between those of the values on either side of it.
RECURSIVE OrderTimes(_, _, _, _)
OrderTimes(ms, ts, dir, tie) ==
    IF ts = {} THEN <<>>
    ELSE LET mid == CHOOSE t \in ts :
                        Cardinality({u \in ts : u < t}) = Cardinality(ts) \div 2
             lower == OrderTimes(ms, {u \in ts : u < mid}, dir, tie)
             upper == OrderTimes(ms, {u \in ts : u > mid}, dir, tie)
         IN  IF dir = "ASC"
             THEN lower \o SameTime(ms, mid, tie) \o upper
             ELSE upper \o SameTime(ms, mid, tie) \o lower
OrderBy(ms, dir, tie) ==
    OrderTimes(ms, {ms[i].created_at : i \in 1..Len(ms)}, dir, tie)
\* [...new Set(messages.map(m => m.user_id))]: distinct, in order of first use.
Distinct(s) ==
    LET vals == {s[i] : i \in 1..Len(s)}
        first == [v \in vals |-> CHOOSE i \in 1..Len(s) :
                                      s[i] = v /\ \A j \in 1..(i - 1) : s[j] # v]
    IN  [p \in 1..Cardinality(vals) |->
            CHOOSE v \in vals :
                Cardinality({w \in vals : first[w] < first[v]}) = p - 1]
AuthorsOf(ms) == Distinct([i \in 1..Len(ms) |-> ms[i].user_id])
\* The users table (rows are never deleted), and the records the handlers
\* resolve author ids to: the bot record is built on the spot, with the
\* current time as its created_at.
UsersTable == UserIds \cup {"bot"}
UserRecord(uid) == [id |-> uid, created_at |-> 0]
BotRecord(t) == [id |-> "bot", created_at |-> t]
ResolveUsers(ids, t) ==
    LET known == SelectSeq(ids, LAMBDA uid : uid = "bot" \/ uid \in UsersTable)
    IN  [i \in 1..Len(known) |->
            IF known[i] = "bot" THEN BotRecord(t) ELSE UserRecord(known[i])]

\* broadcastToRoom: the sends the loop makes, in registry order.
RoomSend_AnySocket(cn, c, memberIds, roomId, message) ==
    IF cn[c].att.type = "bot"
    THEN IF message.type = "new_message" /\ message.message.source = "user"
         THEN <<To(c, PluginMessage(roomId, message.message))>>
         ELSE <<>>
    ELSE IF cn[c].att.id \in memberIds \/ cn[c].att.type = "none"
    THEN <<To(c, message)>>
    ELSE <<>>
RoomSend(cn, c, memberIds, roomId, message) ==
    IF cn[c].att.type = "user"
    THEN IF cn[c].att.id \in memberIds THEN <<To(c, message)>> ELSE <<>>
    ELSE IF cn[c].att.type = "bot"
    THEN IF message.type = "new_message" /\ message.message.source = "user"
         THEN <<To(c, PluginMessage(roomId, message.message))>>
         ELSE <<>>
    ELSE <<>>
RECURSIVE Concat(_)
Concat(ss) == IF ss = <<>> THEN <<>> ELSE Head(ss) \o Concat(Tail(ss))
BroadcastToRoom(cn, rm, roomId, message) ==
    LET memberIds == MemberIds(rm, roomId)
        ws == GetWebSockets(cn)
    IN  Concat([i \in 1..Len(ws) |-> RoomSend(cn, ws[i], memberIds, roomId, message)])

\* handleJoinRoom: joinedRooms after the update.
JoinedRooms_Always(joinedRooms, roomId) == Push(joinedRooms, roomId)
JoinedRooms(joinedRooms, roomId) ==
    IF Includes(joinedRooms, roomId) THEN joinedRooms ELSE Push(joinedRooms, roomId)
\* handleLeaveRoom: joinedRooms after the update.
LeftRooms(joinedRooms, roomId) == Filter(joinedRooms, roomId)

\* handleJoinRoom without the membership lookup.
HandleJoinRoom_NoMemberCheck(c, roomId) ==
    /\ conn[c].status = "open"
    /\ LET att == conn[c].att
       IN  IF att.type # "user"
           THEN /\ sent' = <<To(c, ErrorFrame("Not authenticated"))>>
                /\ UNCHANGED conn
           ELSE /\ conn' = [conn EXCEPT ![c].att.rooms = JoinedRooms(att.rooms, roomId)]
                /\ \E tie \in TieRules :
                      LET recent == Take(OrderBy(RoomRows(messages, roomId), "DESC", tie),
                                         HISTORY_LIMIT)
                      IN  sent' = << To(c, RoomJoined(roomId)),
                                     To(c, RoomMessages(roomId, Reverse(recent),
                                              ResolveUsers(AuthorsOf(recent), now))) >>
    /\ last' = Step("join_room", c, "", FALSE)
    /\ UNCHANGED <<lastSignal, now, messages, room_members, rooms, clientVars>>

\* handleJoinRoom
HandleJoinRoom(c, roomId) ==
    /\ conn[c].status = "open"
    /\ LET att == conn[c].att
       IN  IF att.type # "user"
           THEN /\ sent' = <<To(c, ErrorFrame("Not authenticated"))>>
                /\ UNCHANGED conn
           ELSE IF <<roomId, att.id>> \notin room_members
           THEN /\ sent' = <<To(c, ErrorFrame("Not a member of this room"))>>
                /\ UNCHANGED conn
           ELSE /\ conn' = [conn EXCEPT ![c].att.rooms = JoinedRooms(att.rooms, roomId)]
                /\ \E tie \in TieRules :
                      LET recent == Take(OrderBy(RoomRows(messages, roomId), "DESC", tie),
                                         HISTORY_LIMIT)
                      IN  sent' = << To(c, RoomJoined(roomId)),
                                     To(c, RoomMessages(roomId, Reverse(recent),
                                              ResolveUsers(AuthorsOf(recent), now))) >>
    /\ last' = Step("join_room", c, "", FALSE)
    /\ UNCHANGED <<lastSignal, now, messages, room_members, rooms, clientVars>>

\* handleLeaveRoom
HandleLeaveRoom(c, roomId) ==
    /\ conn[c].status = "open"
    /\ conn' = IF conn[c].att.type = "user"
               THEN [conn EXCEPT ![c].att.rooms = LeftRooms(conn[c].att.rooms, roomId)]
               ELSE conn
    /\ sent' = <<To(c, RoomLeft(roomId))>>
    /\ last' = Step("leave_room", c, "", FALSE)
    /\ UNCHANGED <<lastSignal, now, messages, room_members, rooms, clientVars>>

\* handleBotSubscribe
HandleBotSubscribe(c, roomId) ==
    /\ conn[c].status = "open"
    /\ IF conn[c].att.type # "bot"
       THEN /\ sent' = <<To(c, ErrorFrame("Not authenticated as bot"))>>
            /\ UNCHANGED conn
       ELSE /\ conn' = IF Includes(conn[c].att.rooms, roomId) THEN conn
                       ELSE [conn EXCEPT ![c].att.rooms = Push(conn[c].att.rooms, roomId)]
            /\ sent' = <<>>
    /\ last' = Step("subscribe", c, "", FALSE)
    /\ UNCHANGED <<lastSignal, now, messages, room_members, rooms, clientVars>>

\* handleBotUnsubscribe
HandleBotUnsubscribe(c, roomId) ==
    /\ conn[c].status = "open"
    /\ conn' = IF conn[c].att.type = "bot"
               THEN [conn EXCEPT ![c].att.rooms = Filter(conn[c].att.rooms, roomId)]
               ELSE conn
    /\ sent' = <<>>
    /\ last' = Step("unsubscribe", c, "", FALSE)
    /\ UNCHANGED <<lastSignal, now, messages, room_members, rooms, clientVars>>

\* The number of clock steps taken to reach time t.
Ticks(t) == (t \div HEARTBEAT_TIMEOUT) + (t % HEARTBEAT_TIMEOUT)
\* The store takes MaxMsgs messages, and one more once the clock has moved.
MayStore(ms, t) == Len(ms) < MaxMsgs + (IF Ticks(t) > 0 THEN 1 ELSE 0)

\* handleSendMessage: POST /api/messages with a Bearer session id.  An
\* exception of the broadcast makes the request fail instead of answering
\* success.
HandleSendMessage(sessionId, roomId) ==
    /\ MayStore(messages, now)
    /\ LET sessions == ValidSessions(sessionId, now)
       IN  IF sessions = {}
           THEN /\ sent' = <<>>
                /\ last' = Step("http_401", 0, "", FALSE)
                /\ UNCHANGED messages
           ELSE LET userId == (CHOOSE s \in sessions : TRUE).user_id
                    id == GenerateId(messages)
                    r == SendAll(conn, BroadcastToRoom(conn, room_members, roomId,
                            NewMessage(Wire(id, roomId, userId, "hi", now, "user"))))
                IN  /\ messages' = Append(messages,
                                     Row(id, roomId, userId, "hi", now, "user", "null"))
                    /\ sent' = r.out
                    /\ last' = Step("http_send", 0, "", r.threw)
    /\ UNCHANGED <<conn, lastSignal, now, room_members, rooms, clientVars>>

\* handleBotSendMessage
BotWire(id, roomId, content, t, ext) ==
    [id |-> id, room_id |-> roomId, user_id |-> "bot", content |-> content,
     content_type |-> "text", created_at |-> t, source |-> "bot", external_id |-> ext]
HandleBotSendMessage(c, roomId, externalId) ==
    /\ conn[c].status = "open"
    /\ conn[c].att.type = "bot" => MayStore(messages, now)
    /\ IF conn[c].att.type # "bot"
       THEN /\ sent' = <<To(c, ErrorFrame("Not authenticated as bot"))>>
            /\ UNCHANGED messages
       ELSE LET id == GenerateId(messages)
            IN  /\ messages' = Append(messages,
                                 Row(id, roomId, "bot", "hi", now, "bot", externalId))
                /\ sent' = OnMessageSends(conn, c,
                              BroadcastToRoom(conn, room_members, roomId,
                                  NewMessage(BotWire(id, roomId, "hi", now, externalId)))
                              \o <<To(c, MessageSent(id, externalId))>>)
    /\ last' = Step("send_message", c, "", FALSE)
    /\ UNCHANGED <<conn, lastSignal, now, room_members, rooms, clientVars>>

\* The envelopes of the plugin format: a room and the user_id the plugin
\* names as the author.
PluginEnvelopes ==
    [room_id : RoomIds, user_id : {"u1", "bot"}, content : {"hi"}]
\* handlePluginMessage without the check of the attachment.
HandlePluginMessage_NoGuard(c, messageData) ==
    /\ conn[c].status = "open"
    /\ MayStore(messages, now)
    /\ LET roomId == messageData.room_id
           id == GenerateId(messages)
       IN  /\ messages' = Append(messages,
                            Row(id, roomId, "bot", messageData.content, now, "bot", "null"))
           /\ sent' = OnMessageSends(conn, c,
                         BroadcastToRoom(conn, room_members, roomId,
                             NewMessage(Wire(id, roomId, "bot", messageData.content,
                                             now, "bot")))
                         \o <<To(c, [type |-> "message_sent", message_id |-> id])>>)
    /\ last' = Step("message", c, messageData.user_id, FALSE)
    /\ UNCHANGED <<conn, lastSignal, now, room_members, rooms, clientVars>>
\* handlePluginMessage
HandlePluginMessage(c, messageData) ==
    /\ conn[c].status = "open"
    /\ conn[c].att.type = "bot" => MayStore(messages, now)
    /\ IF conn[c].att.type # "bot"
       THEN /\ sent' = <<To(c, ErrorFrame("Not authenticated as bot"))>>
            /\ UNCHANGED <<conn, messages>>
       ELSE LET roomId == messageData.room_id
                id == GenerateId(messages)
            IN  /\ conn' = IF Includes(conn[c].att.rooms, roomId) THEN conn
                           ELSE [conn EXCEPT ![c].att.rooms = Push(conn[c].att.rooms, roomId)]
                /\ messages' = Append(messages,
                                 Row(id, roomId, "bot", messageData.content, now, "bot",
                                     "null"))
                /\ sent' = OnMessageSends(conn, c,
                              BroadcastToRoom(conn, room_members, roomId,
                                  NewMessage(Wire(id, roomId, "bot", messageData.content,
                                                  now, "bot")))
                              \o <<To(c, [type |-> "message_sent", message_id |-> id])>>)
    /\ last' = Step("message", c, messageData.user_id, FALSE)
    /\ UNCHANGED <<lastSignal, now, room_members, rooms, clientVars>>

\* handleSyncRequest with created_at >= in place of created_at >.
SyncResponse_NotStrict(ms, rm, userId, lastMessageId, t, tie) ==
    LET inRooms == SelectSeq(ms, LAMBDA m : <<m.room_id, userId>> \in rm)
        lastMessage == SelectSeq(ms, LAMBDA m : m.id = lastMessageId)
        rows == IF lastMessageId # 0 /\ lastMessage # <<>>
                THEN SelectSeq(inRooms,
                               LAMBDA m : m.created_at >= lastMessage[1].created_at)
                ELSE inRooms
        page == Take(OrderBy(rows, "ASC", tie), SYNC_LIMIT)
    IN  [type |-> "sync_response", messages |-> page,
         users |-> ResolveUsers(AuthorsOf(page), t)]
\* handleSyncRequest.  lastMessageId 0 stands for an absent last_message_id.
SyncResponse(ms, rm, userId, lastMessageId, t, tie) ==
    LET inRooms == SelectSeq(ms, LAMBDA m : <<m.room_id, userId>> \in rm)
        lastMessage == SelectSeq(ms, LAMBDA m : m.id = lastMessageId)
        rows == IF lastMessageId # 0 /\ lastMessage # <<>>
                THEN SelectSeq(inRooms,
                               LAMBDA m : m.created_at > lastMessage[1].created_at)
                ELSE inRooms
        page == Take(OrderBy(rows, "ASC", tie), SYNC_LIMIT)
    IN  [type |-> "sync_response", messages |-> page,
         users |-> ResolveUsers(AuthorsOf(page), t)]
HandleSyncRequest(c, lastMessageId) ==
    /\ conn[c].status = "open"
    /\ IF conn[c].att.type # "user"
       THEN sent' = <<>>
       ELSE \E tie \in TieRules :
               sent' = <<To(c, SyncResponse(messages, room_members, conn[c].att.id,
                                            lastMessageId, now, tie))>>
    /\ last' = Step("sync_request", c, lastMessageId, FALSE)
    /\ UNCHANGED <<conn, lastSignal, now, messages, room_members, rooms, clientVars>>

\* handleMessageAck: UPDATE messages SET acknowledged = 1 WHERE id = messageId.
Acknowledge_All(ms, messageId) ==
    [i \in 1..Len(ms) |-> [ms[i] EXCEPT !.acknowledged = TRUE]]
Acknowledge(ms, messageId) ==
    [i \in 1..Len(ms) |->
        IF ms[i].id = messageId THEN [ms[i] EXCEPT !.acknowledged = TRUE] ELSE ms[i]]
HandleMessageAck(c, messageId) ==
    /\ conn[c].status = "open"
    /\ messages' = Acknowledge(messages, messageId)
    /\ sent' = <<>>
    /\ last' = Step("message_ack", c, messageId, FALSE)
    /\ UNCHANGED <<conn, lastSignal, now, room_members, rooms, clientVars>>

\* onMessage on a frame no handler is called for.  JSON.parse throws on text
\* that is not JSON; reading .type of the parsed value throws when the value
\* is null; a value without a type, or with a type that is no case of the
\* switch, or a "message" frame without its body, falls through the switch.
OtherFrames == {"not-json", "json-null", "json-number", "no-type",
                "unknown-type", "message-without-body"}
ParseThrows_Never(frame) == FALSE
ParseThrows(frame) == frame = "not-json"
TypeThrows_Always(frame) == TRUE
TypeThrows(frame) == frame = "json-null"
OnMessage(c, frame) ==
    /\ conn[c].status = "open"
    /\ sent' = IF ParseThrows(frame) \/ TypeThrows(frame)
               THEN <<To(c, ErrorFrame("Invalid message format"))>>
               ELSE <<>>
    /\ last' = Step("frame", c, frame, FALSE)
    /\ UNCHANGED <<conn, lastSignal, now, messages, room_members, rooms, clientVars>>

\* Time passes: one unit, or one timeout period; at most MaxTicks times.
Tick(d) ==
    /\ Ticks(now) < MaxTicks
    /\ now' = now + d
    /\ sent' = <<>>
    /\ last' = Step("tick", 0, "", FALSE)
    /\ UNCHANGED <<conn, lastSignal, messages, room_members, rooms, clientVars>>

\* ------------------------------------------------------------ create room
\* The ids generateId gives to the rooms that are created.
NewRoomIds == <<"r3", "r4", "r5">>
RoomTypes == {"private", "group", "bot"}
\* The member_ids of the requests: a pair in both orders, three ids, one id,
\* none.
MemberLists ==
    {<<"u1", "u2">>, <<"u2", "u1">>, <<"u1", "bot">>, <<"u1", "u2", "bot">>,
     <<"u1">>, <<>>}
\* The lookup of an existing private room: private rooms that have both
\* member_ids[0] and member_ids[1] among their members.
ExistingPrivate(rs, rm, a, b) ==
    {r \in rs : r.type = "private" /\ <<r.id, a>> \in rm /\ <<r.id, b>> \in rm}
\* The rows inserted into room_members for the new room.
NewMembers(roomId, type, member_ids) ==
    IF type = "bot"
    THEN {<<roomId, "bot">>}
            \cup (IF Len(member_ids) > 0 THEN {<<roomId, member_ids[1]>>} ELSE {})
    ELSE {<<roomId, member_ids[i]>> : i \in 1..Len(member_ids)}
\* The ids of NewRoomIds, by position, that no room has.
UnusedRoomIds(rs) ==
    {i \in 1..Len(NewRoomIds) : \A r \in rs : r.id # NewRoomIds[i]}
\* handleCreateRoom: POST /api/rooms with a Bearer session id.
HandleCreateRoom(sessionId, type, member_ids) ==
    /\ UnusedRoomIds(rooms) # {}
    /\ sent' = <<>>
    /\ IF ValidSessions(sessionId, now) = {}
       THEN /\ last' = Step("http_401", 0, "", FALSE)
            /\ UNCHANGED <<rooms, room_members>>
       ELSE IF /\ type = "private"
               /\ Len(member_ids) = 2
               /\ ExistingPrivate(rooms, room_members, member_ids[1], member_ids[2]) # {}
       THEN /\ \E r \in ExistingPrivate(rooms, room_members, member_ids[1], member_ids[2]) :
                  last' = Step("create_room", 0, r.id, FALSE)
            /\ UNCHANGED <<rooms, room_members>>
       ELSE LET roomId == NewRoomIds[LowestOf(UnusedRoomIds(rooms))]
            IN  /\ rooms' = rooms \cup {[id |-> roomId, type |-> type]}
                /\ room_members' = room_members \cup NewMembers(roomId, type, member_ids)
                /\ last' = Step("create_room", 0, roomId, FALSE)
    /\ UNCHANGED <<conn, lastSignal, now, messages, clientVars>>

\* The ids a delete request names: the rooms at the start and the new ones.
AllRoomIds == RoomIds \cup {NewRoomIds[i] : i \in 1..Len(NewRoomIds)}
\* handleDeleteRoom: DELETE /api/rooms/<roomId> with a Bearer session id.
HandleDeleteRoom(sessionId, roomId) ==
    /\ sent' = <<>>
    /\ IF ValidSessions(sessionId, now) = {}
       THEN /\ last' = Step("http_401", 0, "", FALSE)
            /\ UNCHANGED <<rooms, room_members, messages>>
       ELSE IF \A r \in rooms : r.id # roomId
       THEN /\ last' = Step("http_404", 0, roomId, FALSE)
            /\ UNCHANGED <<rooms, room_members, messages>>
       ELSE IF [id |-> roomId, type |-> "bot"] \notin rooms
       THEN /\ last' = Step("http_403", 0, roomId, FALSE)
            /\ UNCHANGED <<rooms, room_members, messages>>
       ELSE /\ messages' = SelectSeq(messages, LAMBDA m : m.room_id # roomId)
            /\ room_members' = {p \in room_members : p[1] # roomId}
            /\ rooms' = {r \in rooms : r.id # roomId}
            /\ last' = Step("delete_room", 0, roomId, FALSE)
    /\ UNCHANGED <<conn, lastSignal, now, clientVars>>

\* ------------------------------------------------ client: useWebSocket hook
\* The hook's refs, its sockets and its timeouts, as one value the helpers
\* of the hook transform.
World(cl, so, tm) == [client |-> cl, sockets |-> so, timers |-> tm]
\* Slots of sockets that are closed for good, and of timeouts not pending.
FreeSockets(so) == {s \in SocketIds : so[s].readyState = "CLOSED" /\ ~so[s].retry}
FreeTimers(tm) == {t \in TimerIds : ~tm[t].pending}
\* socket.close(): a connecting or open socket starts closing and its close
\* event follows; a PartySocket also gives up reopening by itself.
CloseSocket(so, s) ==
    [so EXCEPT ![s] = [@ EXCEPT !.readyState = IF @ \in {"CONNECTING", "OPEN"}
                                               THEN "CLOSING" ELSE @,
                                !.retry = FALSE]]
\* setConnectionState(state): React drops the update of a component that has
\* unmounted.
SetConnectionState(cl, state) ==
    IF cl.mounted = "gone" THEN cl
    ELSE [cl EXCEPT !.connectionState = state,
                    !.flushDue = \/ @
                                 \/ /\ state = "connected"
                                    /\ cl.connectionState # "connected"
                                    /\ cl.pendingAcks # <<>>]
\* clearTimeout(reconnectTimeoutRef.current), when the ref is set.
ClearTimeout(tm, t) == IF t = 0 THEN tm ELSE [tm EXCEPT ![t] = NoTimer]
\* connect(): the sockets after the existing socket, unless it reports
\* CLOSED, has been closed.
Replaced(w) ==
    IF w.client.socketRef # 0 /\ w.sockets[w.client.socketRef].readyState # "CLOSED"
    THEN CloseSocket(w.sockets, w.client.socketRef)
    ELSE w.sockets
\* connect() returns at once: no session, already connecting, or torn down.
Returns(w, sessionId) ==
    sessionId = "" \/ w.client.isConnecting \/ w.client.isClosed
\* connect() as built for the given sessionId.
Connect(w, sessionId) ==
    IF Returns(w, sessionId) THEN w
    ELSE LET s == LowestOf(FreeSockets(Replaced(w)))
         IN  World([SetConnectionState(w.client,
                                           IF w.client.reconnectAttempt > 0
                                           THEN "reconnecting" ELSE "connecting")
                        EXCEPT !.socketRef = s,
                               !.reconnectTimeoutRef = 0,
                               !.isConnecting = TRUE],
                   [Replaced(w) EXCEPT ![s] = [NoSocket EXCEPT
                                                  !.readyState = "CONNECTING",
                                                  !.sessionId = sessionId]],
                   ClearTimeout(w.timers, w.client.reconnectTimeoutRef))
\* The model has a slot for the socket connect() would create.
CanConnect(w, sessionId) ==
    Returns(w, sessionId) \/ FreeSockets(Replaced(w)) # {}
\* The socket the cleanup closes, marked.
Torn(so, s) ==
    IF so[s].readyState = "CLOSING" THEN [so EXCEPT ![s].torn = TRUE] ELSE so
\* The cleanup of the connection effect.
Cleanup(w) ==
    World([w.client EXCEPT !.isClosed = TRUE,
                           !.heartbeatIntervalRef = 0,
                           !.reconnectTimeoutRef = 0,
                           !.socketRef = 0,
                           !.isConnecting = FALSE],
          IF w.client.socketRef # 0
          THEN Torn(CloseSocket(w.sockets, w.client.socketRef), w.client.socketRef)
          ELSE w.sockets,
          ClearTimeout(w.timers, w.client.reconnectTimeoutRef))
\* The connection effect, run for the given sessionId.
Rendered(w, sessionId) ==
    World([w.client EXCEPT !.isClosed = FALSE,
                           !.sessionId = sessionId,
                           !.mounted = "yes"],
          w.sockets, w.timers)
Effect(w, sessionId) == Connect(Rendered(w, sessionId), sessionId)
Here == World(client, sockets, timers)
Becomes(w) ==
    /\ client' = w.client
    /\ sockets' = w.sockets
    /\ timers' = w.timers
serverVars == <<conn, lastSignal, now, messages, room_members, rooms>>
\* A frame the client sends on socket s.
Via(s, f) == [to |-> "server", socket |-> s, frame |-> f]

\* The component mounts: the connection effect runs for the first time.
Mount(sessionId) ==
    /\ client.mounted = "no"
    /\ Becomes(Effect(Here, sessionId))
    /\ sent' = <<>>
    /\ last' = Step("mount", 0, sessionId, FALSE)
    /\ UNCHANGED <<serverVars, closes, app>>

\* The sessionId prop changes: the cleanup of the effect, then the effect.
SessionChange(sessionId) ==
    /\ client.mounted = "yes"
    /\ sessionId # client.sessionId
    /\ CanConnect(Rendered(Cleanup(Here), sessionId), sessionId)
    /\ Becomes(Effect(Cleanup(Here), sessionId))
    /\ sent' = <<>>
    /\ last' = Step("session", 0, sessionId, FALSE)
    /\ UNCHANGED <<serverVars, closes, app>>

\* The component unmounts: the cleanup, and no effect after it.
Unmount ==
    /\ client.mounted = "yes"
    /\ Becomes(World([Cleanup(Here).client EXCEPT !.mounted = "gone"],
                     Cleanup(Here).sockets, Cleanup(Here).timers))
    /\ sent' = <<>>
    /\ last' = Step("unmount", 0, "", FALSE)
    /\ UNCHANGED <<serverVars, closes, app>>

\* The page becomes visible.
HandleVisibilityChange ==
    /\ client.mounted = "yes"
    /\ CanConnect(Here, client.sessionId)
    /\ IF /\ ~(/\ client.socketRef # 0
               /\ sockets[client.socketRef].readyState \in {"OPEN", "CONNECTING"})
          /\ ~client.isConnecting
          /\ client.sessionId # ""
       THEN Becomes(Connect(Here, client.sessionId))
       ELSE UNCHANGED <<client, sockets, timers>>
    /\ sent' = <<>>
    /\ last' = Step("visible", 0, "", FALSE)
    /\ UNCHANGED <<serverVars, closes, app>>

\* A reconnect timeout fires: it runs the connect() of the render that
\* created the socket whose close handler set it.
TimerFires(t) ==
    /\ timers[t].pending
    /\ LET w == World([client EXCEPT !.reconnectTimeoutRef = 0], sockets,
                      [timers EXCEPT ![t] = NoTimer])
       IN  /\ CanConnect(w, timers[t].sessionId)
           /\ Becomes(Connect(w, timers[t].sessionId))
    /\ sent' = <<>>
    /\ last' = Step("timer", 0, "", FALSE)
    /\ UNCHANGED <<serverVars, closes, app>>

\* syncMessages(...), called by the caller's onConnect: sends when the
\* socket in socketRef is open.
SyncMessages(cl, so) ==
    IF cl.socketRef # 0 /\ so[cl.socketRef].readyState = "OPEN"
    THEN <<Via(cl.socketRef, [type |-> "sync_request"])>>
    ELSE <<>>
\* The join_room frames of the remembered rooms.
RECURSIVE Rejoin(_, _)
Rejoin(s, joinedRooms) ==
    IF joinedRooms = {} THEN <<>>
    ELSE LET r == CHOOSE x \in joinedRooms : TRUE
         IN  <<Via(s, [type |-> "join_room", room_id |-> r])>>
                \o Rejoin(s, joinedRooms \ {r})

\* The server handles a frame of a socket whose session is valid and whose
\* user is a member of the room: handleJoinRoom, handleLeaveRoom.
Handled(sk, f) ==
    IF f.type = "join_room"
    THEN [sk EXCEPT !.subscribed = JoinedRooms(@, f.room_id),
                    !.inbox = Append(@, RoomJoined(f.room_id))]
    ELSE IF f.type = "leave_room"
    THEN [sk EXCEPT !.subscribed = LeftRooms(@, f.room_id),
                    !.inbox = Append(@, RoomLeft(f.room_id))]
    ELSE sk
\* The sockets after the frames q the hook has sent were handled.
RECURSIVE Deliver(_, _)
Deliver(so, q) ==
    IF q = <<>> THEN so
    ELSE Deliver([so EXCEPT ![Head(q).socket] = Handled(@, Head(q).frame)], Tail(q))

\* The open handler: the auth frame, then the join_room frames.
OnOpen_JoinFirst(s, sessionId, joinedRooms) ==
    Rejoin(s, joinedRooms)
        \o <<Via(s, [type |-> "auth", session_id |-> sessionId])>>
OnOpen(s, sessionId, joinedRooms) ==
    <<Via(s, [type |-> "auth", session_id |-> sessionId])>>
        \o Rejoin(s, joinedRooms)

\* Socket s opens: the open handler.
SocketOpen(s) ==
    /\ sockets[s].readyState = "CONNECTING"
    /\ client' = [SetConnectionState(client, "connected") EXCEPT
                      !.isConnecting = FALSE,
                      !.reconnectAttempt = 0,
                      !.heartbeatIntervalRef = s]
    /\ LET opened == [sockets EXCEPT ![s].readyState = "OPEN"]
       IN  /\ sent' = OnOpen(s, sockets[s].sessionId, client.joinedRooms)
                         \o SyncMessages(client, opened)
           /\ sockets' = Deliver(opened, sent')
    /\ closes' = 0
    /\ last' = Step("socket_open", s, "", FALSE)
    /\ UNCHANGED <<serverVars, timers, app>>

\* The delay of the reconnect after the attempt-th close in a row.
Backoff_FromZero(attempt) ==
    Min(RECONNECT_BASE_DELAY * 2^attempt, MAX_RECONNECT_DELAY)
Backoff(attempt) ==
    Min(RECONNECT_BASE_DELAY * 2^(attempt - 1), MAX_RECONNECT_DELAY)

\* setTimeout(() => { reconnectTimeoutRef.current = null; connect() }, delay)
\* of the close handler: the timeouts after it.
ScheduleReconnect_Dropped(tm, t, delay, sessionId) == tm
ScheduleReconnect(tm, t, delay, sessionId) ==
    [tm EXCEPT ![t] = [pending |-> TRUE, delay |-> delay, sessionId |-> sessionId]]

\* Socket s closes (a failed attempt, a close by the peer, or the end of a
\* close() of the hook): the close handler.  After a close the hook did not
\* ask for, the PartySocket may reopen by itself (retry).
SocketClose(s, retry) ==
    /\ sockets[s].readyState \in {"CONNECTING", "OPEN", "CLOSING"}
    /\ retry => sockets[s].readyState # "CLOSING"
    /\ closes < MaxCloses
    /\ sockets' = [sockets EXCEPT ![s] =
                      IF retry THEN [NoSocket EXCEPT !.sessionId = sockets[s].sessionId,
                                                     !.retry = TRUE]
                      ELSE NoSocket]
    /\ closes' = closes + 1
    /\ sent' = <<>>
    /\ IF client.isClosed
       THEN /\ client' = [SetConnectionState(client, "disconnected") EXCEPT
                              !.isConnecting = FALSE,
                              !.heartbeatIntervalRef = 0]
            /\ last' = Step("socket_close", s, 0, FALSE)
            /\ UNCHANGED timers
       ELSE /\ FreeTimers(timers) # {}
            /\ LET t == LowestOf(FreeTimers(timers))
                   attempt == client.reconnectAttempt + 1
               IN  /\ client' = [SetConnectionState(client, "disconnected") EXCEPT
                                     !.isConnecting = FALSE,
                                     !.heartbeatIntervalRef = 0,
                                     !.reconnectAttempt = attempt,
                                     !.reconnectTimeoutRef = t]
                   /\ timers' = ScheduleReconnect(timers, t, Backoff(attempt),
                                                  sockets[s].sessionId)
                   /\ last' = Step("socket_close", s, Backoff(attempt), FALSE)
    /\ UNCHANGED <<serverVars, app>>

\* A PartySocket that closed without close() having been called connects
\* again by itself.
SocketReconnects(s) ==
    /\ sockets[s].readyState = "CLOSED"
    /\ sockets[s].retry
    /\ sockets' = [sockets EXCEPT ![s] = [@ EXCEPT !.readyState = "CONNECTING",
                                                   !.retry = FALSE]]
    /\ sent' = <<>>
    /\ last' = Step("retry", s, "", FALSE)
    /\ UNCHANGED <<serverVars, client, timers, closes, app>>

\* joinRoom(roomId) of the caller: sent when the socket in socketRef is open.
JoinRoom(roomId) ==
    /\ client.mounted = "yes"
    /\ client.socketRef # 0 => Len(sockets[client.socketRef].inbox) < MaxInFlight
    /\ sent' = IF client.socketRef # 0 /\ sockets[client.socketRef].readyState = "OPEN"
               THEN <<Via(client.socketRef, [type |-> "join_room", room_id |-> roomId])>>
               ELSE <<>>
    /\ sockets' = Deliver(sockets, sent')
    /\ client' = [client EXCEPT !.wanted = @ \cup {roomId}]
    /\ last' = Step("join", 0, roomId, FALSE)
    /\ UNCHANGED <<serverVars, timers, closes, app>>

\* leaveRoom(roomId) of the caller.
LeaveRoom(roomId) ==
    /\ client.mounted = "yes"
    /\ client.socketRef # 0 => Len(sockets[client.socketRef].inbox) < MaxInFlight
    /\ sent' = IF client.socketRef # 0 /\ sockets[client.socketRef].readyState = "OPEN"
               THEN <<Via(client.socketRef, [type |-> "leave_room", room_id |-> roomId])>>
               ELSE <<>>
    /\ sockets' = Deliver(sockets, sent')
    /\ client' = [client EXCEPT !.joinedRooms = @ \ {roomId},
                                !.wanted = @ \ {roomId}]
    /\ last' = Step("leave", 0, roomId, FALSE)
    /\ UNCHANGED <<serverVars, timers, closes, app>>

\* The message_ack frame of acknowledgement id.
MessageAck(s, id) ==
    Via(s, [type |-> "message_ack", message_id |-> id, status |-> "delivered"])
\* ackMessage for each of ids in order: sent when the socket in socketRef is
\* open, queued otherwise.
AckAll(cl, so, ids) ==
    IF cl.socketRef # 0 /\ so[cl.socketRef].readyState = "OPEN"
    THEN [sent |-> [i \in 1..Len(ids) |-> MessageAck(cl.socketRef, ids[i])],
          pendingAcks |-> cl.pendingAcks]
    ELSE [sent |-> <<>>, pendingAcks |-> cl.pendingAcks \o ids]
\* The ids of the message_ack frames in q.
AckIds(q) == [i \in 1..Len(q) |-> q[i].frame.message_id]

\* ackMessage(messageId, "delivered") of the caller.
AckMessage ==
    /\ client.mounted = "yes"
    /\ client.requested < MaxAcks
    /\ LET id == client.requested + 1
           r == AckAll(client, sockets, <<id>>)
       IN  /\ sent' = r.sent
           /\ client' = [client EXCEPT !.pendingAcks = r.pendingAcks,
                                       !.requested = id,
                                       !.buffered = IF r.sent = <<>> THEN @ \cup {id} ELSE @,
                                       !.ackLog = @ \o AckIds(r.sent)]
           /\ last' = Step("ack", 0, id, FALSE)
    /\ UNCHANGED <<serverVars, sockets, timers, closes, app>>

\* The effect on connectionState: with "connected" and a queue that is not
\* empty it empties the queue and calls ackMessage for each entry.
FlushEffect ==
    /\ client.mounted = "yes"
    /\ client.flushDue
    /\ LET pending == client.pendingAcks
           r == AckAll([client EXCEPT !.pendingAcks = <<>>], sockets, pending)
       IN  /\ sent' = r.sent
           /\ client' = [client EXCEPT !.pendingAcks = r.pendingAcks,
                                       !.flushDue = FALSE,
                                       !.ackLog = @ \o AckIds(r.sent)]
    /\ last' = Step("flush", 0, "", FALSE)
    /\ UNCHANGED <<serverVars, sockets, timers, closes, app>>

\* A frame arrives on socket s: the message handler.
SocketMessage(s) ==
    /\ sockets[s].readyState = "OPEN"
    /\ sockets[s].inbox # <<>>
    /\ LET message == Head(sockets[s].inbox)
       IN  /\ client' = IF message.type = "room_joined"
                        THEN [client EXCEPT !.joinedRooms = @ \cup {message.room_id}]
                        ELSE IF message.type = "room_left"
                        THEN [client EXCEPT !.joinedRooms = @ \ {message.room_id}]
                        ELSE client
           /\ last' = Step("socket_message", s, message.type, FALSE)
    /\ sockets' = [sockets EXCEPT ![s].inbox = Tail(@)]
    /\ sent' = <<>>
    /\ UNCHANGED <<serverVars, timers, closes, app>>

\* ----------------------------------------------------- client: chat page
hookVars == <<client, sockets, timers, closes>>
\* The user of the page.
CurrentUser == "u1"
\* A message object of a frame or of a response, as an entry of the list.
Shown(m) ==
    [id |-> m.id, room_id |-> m.room_id, user_id |-> m.user_id,
     content |-> m.content, created_at |-> m.created_at, stored |-> m.id]
ShownAll(ms) == [i \in 1..Len(ms) |-> Shown(ms[i])]
\* prev.sort((a, b) => a.created_at - b.created_at): stable.
SortByCreatedAt(prev) == OrderBy(prev, "ASC", "oldest-first")
\* prev.findIndex(...), 0 for -1.
FindIndex(prev, Test(_)) ==
    IF \E i \in 1..Len(prev) : Test(prev[i])
    THEN CHOOSE i \in 1..Len(prev) :
            Test(prev[i]) /\ \A j \in 1..(i - 1) : ~Test(prev[j])
    ELSE 0
\* new_message: the list after the message m of the frame.
OnNewMessage(prev, m) ==
    LET tempIndex == FindIndex(prev, LAMBDA e : /\ e.id < 0
                                                /\ e.user_id = m.user_id
                                                /\ e.content = m.content)
    IN  IF FindIndex(prev, LAMBDA e : e.id = m.id) # 0 THEN prev
        ELSE IF tempIndex # 0 THEN [prev EXCEPT ![tempIndex] = Shown(m)]
        ELSE Append(prev, Shown(m))
\* sync_response: the list after the messages ms of the frame.
OnSyncResponse(prev, ms) ==
    SortByCreatedAt(prev \o SelectSeq(ShownAll(ms),
                        LAMBDA m : \A i \in 1..Len(prev) : prev[i].id # m.id))

\* ChatDatabase.addMessage, called and not awaited: the call starts with
\* nothing read yet.
AddMessage(calls, roomId, m) ==
    Append(calls, [roomId |-> roomId, message |-> Shown(m), read |-> FALSE,
                   data |-> <<>>])
\* ChatDatabase.addMessage: the list it saves, from the list it has read.
AddedTo(data, m) ==
    IF \E i \in 1..Len(data) : data[i].id = m.id
    THEN data
    ELSE SortByCreatedAt(Append(data, m))
\* loadRoomMessages: the Map of the local messages, then the server's, by id.
MergeById(localMsgs, serverMsgs) ==
    [i \in 1..Len(localMsgs) |->
        IF \E j \in 1..Len(serverMsgs) : serverMsgs[j].id = localMsgs[i].id
        THEN serverMsgs[CHOOSE j \in 1..Len(serverMsgs) :
                            serverMsgs[j].id = localMsgs[i].id]
        ELSE localMsgs[i]]
      \o SelectSeq(serverMsgs,
                   LAMBDA m : \A i \in 1..Len(localMsgs) : localMsgs[i].id # m.id)

\* The page after the handler of a new_message frame with message m: the
\* addMessage call, and the list when the room of m is the selected one.
NewMessageFrame(a, m) ==
    [a EXCEPT !.calls = AddMessage(@, m.room_id, m),
              !.messages = IF a.selectedRoom = m.room_id THEN OnNewMessage(@, m)
                           ELSE @]
\* The page after the handler of a room_messages frame.
RoomMessagesFrame(a, roomId, ms) ==
    IF a.selectedRoom = roomId
    THEN [a EXCEPT !.messages = ShownAll(ms), !.cache[roomId] = ShownAll(ms)]
    ELSE a
\* The page after the handler of a sync_response frame.
SyncResponseFrame(a, message) ==
    [a EXCEPT
        !.messages = OnSyncResponse(@, message.messages),
        !.cache = IF a.selectedRoom # "" /\ Len(message.messages) > 0
                  THEN [@ EXCEPT ![a.selectedRoom] = ShownAll(message.messages)]
                  ELSE @]
\* The page after loadRoomMessages has got the server's messages of the room.
RoomLoaded(a, roomId, serverMsgs) ==
    LET mergedMessages ==
            SortByCreatedAt(MergeById(a.cache[roomId], ShownAll(serverMsgs)))
    IN  [a EXCEPT !.messages = mergedMessages, !.cache[roomId] = mergedMessages]
\* The page b that follows page a, with the local cache left as it was: the
\* page of a browser whose cache is not looked at.
ListOnly(a, b) == [b EXCEPT !.cache = a.cache, !.calls = a.calls]

\* handleSelectRoom: the room is selected; its history load and its join_room
\* follow.
HandleSelectRoom(roomId) ==
    /\ app.selectedRoom # roomId
    /\ app' = [app EXCEPT !.selectedRoom = roomId]
    /\ sent' = <<>>
    /\ last' = Step("select", 0, roomId, FALSE)
    /\ UNCHANGED <<serverVars, hookVars>>

\* loadRoomMessages: the answer of GET /api/rooms/<roomId> arrives; the local
\* and the server's messages, merged by id and sorted, become the list and
\* the cached list of the room.
LoadRoomMessages(roomId) ==
    /\ app' = ListOnly(app, RoomLoaded(app, roomId, RoomRows(messages, roomId)))
    /\ sent' = <<>>
    /\ last' = Step("load", 0, roomId, FALSE)
    /\ UNCHANGED <<serverVars, hookVars>>

\* handleSendMessage of the page: the temp entry is shown and the POST
\* starts.
AppSendMessage(content) ==
    /\ app.selectedRoom # ""
    /\ app.posting = <<>>
    /\ app.temps < MaxTemps
    /\ Len(messages) < MaxStored
    /\ LET tempMessage == [id |-> 0 - (app.temps + 1), room_id |-> app.selectedRoom,
                           user_id |-> CurrentUser, content |-> content,
                           created_at |-> now, stored |-> 0]
       IN  app' = [app EXCEPT !.messages = Append(@, tempMessage),
                              !.posting = <<tempMessage>>,
                              !.temps = @ + 1]
    /\ sent' = <<>>
    /\ last' = Step("app_send", 0, content, FALSE)
    /\ UNCHANGED <<serverVars, hookVars>>

\* The server stores the message of the POST and answers success: the page
\* keeps its list.
PostStored ==
    /\ app.posting # <<>>
    /\ LET t == app.posting[1]
           id == GenerateId(messages)
       IN  /\ messages' = Append(messages, Row(id, t.room_id, t.user_id, t.content,
                                                now, "user", "null"))
           /\ app' = [app EXCEPT
                         !.posting = <<>>,
                         !.messages = [i \in 1..Len(@) |->
                                          IF @[i].id = t.id
                                          THEN [@[i] EXCEPT !.stored = id] ELSE @[i]]]
           /\ last' = Step("post_stored", 0, id, FALSE)
    /\ sent' = <<>>
    /\ UNCHANGED <<conn, lastSignal, now, room_members, rooms, hookVars>>

\* The POST fails: the temp entry is removed.
PostFails ==
    /\ app.posting # <<>>
    /\ app' = [app EXCEPT
                  !.posting = <<>>,
                  !.messages = SelectSeq(@, LAMBDA m : m.id # app.posting[1].id)]
    /\ sent' = <<>>
    /\ last' = Step("post_fails", 0, "", FALSE)
    /\ UNCHANGED <<serverVars, hookVars>>

\* Another member stores a message.
OtherPosts(roomId, content) ==
    /\ Len(messages) + Len(app.posting) < MaxStored
    /\ messages' = Append(messages, Row(GenerateId(messages), roomId, "u2", content,
                                        now, "user", "null"))
    /\ sent' = <<>>
    /\ last' = Step("other_post", 0, roomId, FALSE)
    /\ UNCHANGED <<conn, lastSignal, now, room_members, rooms, clientVars>>

\* A new_message frame with the stored message i reaches the page.
NewMessageArrives(i) ==
    /\ i \in 1..Len(messages)
    /\ app' = ListOnly(app, NewMessageFrame(app, messages[i]))
    /\ sent' = <<>>
    /\ last' = Step("new_message", 0, i, FALSE)
    /\ UNCHANGED <<serverVars, hookVars>>

\* A room_messages frame with the history of the room reaches the page.
RoomMessagesArrive(roomId) ==
    /\ app' = ListOnly(app, RoomMessagesFrame(app, roomId, RoomRows(messages, roomId)))
    /\ sent' = <<>>
    /\ last' = Step("room_messages", 0, roomId, FALSE)
    /\ UNCHANGED <<serverVars, hookVars>>

\* A sync_response frame, the answer to sync_request(lastMessageId), reaches
\* the page.
SyncResponseArrives(lastMessageId, tie) ==
    /\ lastMessageId \in 0..Len(messages)
    /\ app' = ListOnly(app, SyncResponseFrame(app,
                                SyncResponse(messages, room_members, CurrentUser,
                                             lastMessageId, now, tie)))
    /\ sent' = <<>>
    /\ last' = Step("sync_response", 0, lastMessageId, FALSE)
    /\ UNCHANGED <<serverVars, hookVars>>

\* The same handlers with the local cache: the frames reach a page whose
\* cache is written and read.
NewMessageCached(i) ==
    /\ i \in 1..Len(messages)
    /\ Len(app.calls) < MaxCalls
    /\ app' = NewMessageFrame(app, messages[i])
    /\ sent' = <<>>
    /\ last' = Step("new_message", 0, i, FALSE)
    /\ UNCHANGED <<serverVars, hookVars>>
SyncResponseCached(lastMessageId, tie) ==
    /\ lastMessageId \in 0..Len(messages)
    /\ app' = SyncResponseFrame(app, SyncResponse(messages, room_members, CurrentUser,
                                                  lastMessageId, now, tie))
    /\ sent' = <<>>
    /\ last' = Step("sync_response", 0, lastMessageId, FALSE)
    /\ UNCHANGED <<serverVars, hookVars>>

\* getRoomData of the k-th unfinished addMessage call returns the cached list
\* of the room.
AddMessageReads(k) ==
    /\ k \in 1..Len(app.calls)
    /\ ~app.calls[k].read
    /\ app' = [app EXCEPT !.calls[k].read = TRUE,
                          !.calls[k].data = app.cache[app.calls[k].roomId]]
    /\ sent' = <<>>
    /\ last' = Step("get_room_data", 0, k, FALSE)
    /\ UNCHANGED <<serverVars, hookVars>>

\* saveRoomData of the k-th unfinished addMessage call puts the list: the
\* call ends.
AddMessageSaves(k) ==
    /\ k \in 1..Len(app.calls)
    /\ app.calls[k].read
    /\ app' = [app EXCEPT
                  !.cache[app.calls[k].roomId] =
                      AddedTo(app.calls[k].data, app.calls[k].message),
                  !.calls = SubSeq(@, 1, k - 1) \o SubSeq(@, k + 1, Len(@))]
    /\ sent' = <<>>
    /\ last' = Step("save_room_data", 0, app.calls[k].message.id, FALSE)
    /\ UNCHANGED <<serverVars, hookVars>>

\* The liveness and presence part of the server: authentication, liveness
\* signals, the sweep, closing.
NextLive ==
    \/ \E c \in ConnIds : OnConnect(c)
    \/ \E c \in ConnIds, s \in SessionIds : HandleUserAuth(c, s)
    \/ \E c \in ConnIds, k \in ApiKeys : HandleBotAuth(c, k)
    \/ \E c \in ConnIds : HandlePing(c)
    \/ \E c \in ConnIds : HandleHeartbeat(c)
    \/ HeartbeatCheck
    \/ \E c \in ConnIds : OnClose(c)
    \/ \E d \in {1, HEARTBEAT_TIMEOUT} : Tick(d)

\* The room part of the server: authentication, subscriptions, messages and
\* their broadcast, closing.
NextRoom ==
    \/ \E c \in ConnIds : OnConnect(c)
    \/ \E c \in ConnIds, s \in SessionIds : HandleUserAuth(c, s)
    \/ \E c \in ConnIds, k \in ApiKeys : HandleBotAuth(c, k)
    \/ \E c \in ConnIds, r \in RoomIds : HandleJoinRoom(c, r)
    \/ \E c \in ConnIds, r \in RoomIds : HandleLeaveRoom(c, r)
    \/ \E c \in ConnIds, r \in RoomIds : HandleBotSubscribe(c, r)
    \/ \E c \in ConnIds, r \in RoomIds : HandleBotUnsubscribe(c, r)
    \/ \E s \in SessionIds, r \in RoomIds : HandleSendMessage(s, r)
    \/ \E c \in ConnIds, r \in RoomIds : HandleBotSendMessage(c, r, "ext-1")
    \/ \E c \in ConnIds, e \in PluginEnvelopes : HandlePluginMessage(c, e)
    \/ \E c \in ConnIds : OnClose(c)

\* The subscription part of the room traffic: authentication, join and leave,
\* messages posted over HTTP, closing.
NextJoin ==
    \/ \E c \in ConnIds : OnConnect(c)
    \/ \E c \in ConnIds, s \in SessionIds : HandleUserAuth(c, s)
    \/ \E c \in ConnIds, k \in ApiKeys : HandleBotAuth(c, k)
    \/ \E c \in ConnIds, r \in RoomIds : HandleJoinRoom(c, r)
    \/ \E c \in ConnIds, r \in RoomIds : HandleLeaveRoom(c, r)
    \/ \E s \in SessionIds, r \in RoomIds : HandleSendMessage(s, r)
    \/ \E c \in ConnIds : OnClose(c)

\* A server started on a store that already holds n messages: three in four
\* in r1, every fourth in r2, authors u1, u2 and the bot in turn, two
\* messages per clock value.  The small store leaves r2 empty and r1 below
\* the history limit; the large one exceeds both limits.
StoredRow(i) ==
    Row(i, IF i % 4 = 0 THEN "r2" ELSE "r1",
        IF i % 3 = 0 THEN "bot" ELSE IF i % 3 = 1 THEN "u1" ELSE "u2",
        "hi", (i + 1) \div 2, IF i % 3 = 0 THEN "bot" ELSE "user", "null")
Store(n) == [i \in 1..n |-> StoredRow(i)]
StoreSizes == {MaxExtra, SYNC_LIMIT + MaxExtra}
InitStore ==
    /\ conn = [c \in AllConnIds |-> [status |-> "closed", att |-> NoAtt]]
    /\ lastSignal = [c \in AllConnIds |-> 0]
    /\ \E n \in StoreSizes :
          /\ messages = Store(n)
          /\ now = (n + 1) \div 2
    /\ room_members = {<<"r1", "bot">>, <<"r1", "u1">>, <<"r2", "u1">>, <<"r2", "u2">>}
    /\ rooms = {[id |-> "r1", type |-> "bot"], [id |-> "r2", type |-> "group"]}
    /\ sent = <<>>
    /\ last = Step("start", 0, "", FALSE)
    /\ InitClient

\* The message ids the requests name: none, the first stored message, the
\* second, the last but one, and an id no stored message has.
IdChoices == {"absent", "first", "second", "last-but-one", "unknown"}
PickId(ms, k) ==
    IF k = "absent" THEN 0
    ELSE IF k = "first" THEN 1
    ELSE IF k = "second" THEN 2
    ELSE IF k = "last-but-one" THEN Len(ms) - 1
    ELSE Len(ms) + 1
\* The store-reading part of the server: authentication, join with history,
\* resynchronisation, closing.
NextStore ==
    \/ \E c \in ConnIds : OnConnect(c)
    \/ \E c \in ConnIds, s \in SessionIds : HandleUserAuth(c, s)
    \/ \E c \in ConnIds, r \in RoomIds : HandleJoinRoom(c, r)
    \/ \E c \in ConnIds, k \in IdChoices \ {"second"} :
          HandleSyncRequest(c, PickId(messages, k))
    \/ \E c \in ConnIds : OnClose(c)

\* The dispatcher's remaining frames: authentication, acknowledgement, frames
\* without a handler, closing.
NextFrames ==
    \/ \E c \in ConnIds : OnConnect(c)
    \/ \E c \in ConnIds, s \in SessionIds : HandleUserAuth(c, s)
    \/ \E c \in ConnIds, k \in ApiKeys : HandleBotAuth(c, k)
    \/ \E c \in ConnIds, k \in {"first", "second", "unknown"} :
          HandleMessageAck(c, PickId(messages, k))
    \/ \E c \in ConnIds, f \in OtherFrames : OnMessage(c, f)
    \/ \E c \in ConnIds : OnClose(c)

\* Messages over time: one user, one bot, messages posted over HTTP and sent
\* by the bot, the clock advancing between them.
NextOrder ==
    \/ \E c \in ConnIds : OnConnect(c)
    \/ \E c \in ConnIds : HandleUserAuth(c, "s1")
    \/ \E c \in ConnIds : HandleBotAuth(c, ValidApiKey)
    \/ \E r \in RoomIds : HandleSendMessage("s1", r)
    \/ \E c \in ConnIds : HandleBotSendMessage(c, "r1", "ext-1")
    \/ Tick(1)

\* The client hook: mounting, session changes, visibility, the reconnect
\* timeouts and the events of its sockets.
NextClient ==
    \/ \E sid \in ClientSessions : Mount(sid)
    \/ \E sid \in ClientSessions : SessionChange(sid)
    \/ Unmount
    \/ HandleVisibilityChange
    \/ \E t \in TimerIds : TimerFires(t)
    \/ \E s \in SocketIds : SocketOpen(s)
    \/ \E s \in SocketIds, retry \in BOOLEAN : SocketClose(s, retry)
    \/ \E s \in SocketIds : SocketReconnects(s)

\* The reconnect cycle of the hook: a socket closes, the timeout fires, the
\* page becomes visible, the session changes; no PartySocket reopens by
\* itself.
NextReconnect ==
    \/ \E sid \in ClientSessions : Mount(sid)
    \/ \E sid \in ClientSessions : SessionChange(sid)
    \/ Unmount
    \/ HandleVisibilityChange
    \/ \E t \in TimerIds : TimerFires(t)
    \/ \E s \in SocketIds : SocketOpen(s)
    \/ \E s \in SocketIds : SocketClose(s, FALSE)

\* The room subscriptions of the hook over closes and reconnects.
NextSubs ==
    \/ Mount("s1")
    \/ \E t \in TimerIds : TimerFires(t)
    \/ \E s \in SocketIds : SocketOpen(s)
    \/ \E s \in SocketIds : SocketClose(s, FALSE)
    \/ \E r \in RoomIds : JoinRoom(r)
    \/ \E r \in RoomIds : LeaveRoom(r)
    \/ \E s \in SocketIds : SocketMessage(s)

\* The acknowledgements of the hook over closes and reconnects.
NextAcks ==
    \/ Mount("s1")
    \/ \E t \in TimerIds : TimerFires(t)
    \/ \E s \in SocketIds : SocketOpen(s)
    \/ \E s \in SocketIds, retry \in BOOLEAN : SocketClose(s, retry)
    \/ \E s \in SocketIds : SocketReconnects(s)
    \/ AckMessage
    \/ FlushEffect

\* The message list of the chat page: sending, the frames that carry
\* messages, the history load.
NextDisplay ==
    \/ Tick(1)
    \/ \E r \in RoomIds : HandleSelectRoom(r)
    \/ \E r \in RoomIds : LoadRoomMessages(r)
    \/ \E content \in {"hi", "yo"} : AppSendMessage(content)
    \/ PostStored
    \/ PostFails
    \/ \E r \in RoomIds : OtherPosts(r, "hi")
    \/ \E i \in 1..MaxStored : NewMessageArrives(i)
    \/ \E r \in RoomIds : RoomMessagesArrive(r)
    \/ \E id \in 0..MaxStored, tie \in TieRules : SyncResponseArrives(id, tie)

\* The addMessage calls of the local cache: members store messages, their
\* new_message frames arrive, the calls read and save.
NextAdds ==
    \/ Tick(1)
    \/ \E r \in RoomIds : OtherPosts(r, "hi")
    \/ \E i \in 1..MaxStored : NewMessageCached(i)
    \/ \E k \in 1..MaxCalls : AddMessageReads(k)
    \/ \E k \in 1..MaxCalls : AddMessageSaves(k)
\* The chat page and its local cache: also, rooms are selected and the answer
\* to a sync_request without an id arrives.
NextCache ==
    \/ NextAdds
    \/ \E r \in RoomIds : HandleSelectRoom(r)
    \/ SyncResponseCached(0, "oldest-first")

\* Room creation and deletion over HTTP.
NextRooms ==
    \/ \E sid \in {"s1", "s0"}, type \in RoomTypes, ids \in MemberLists :
          HandleCreateRoom(sid, type, ids)
    \/ \E sid \in {"s1", "s0"}, r \in AllRoomIds : HandleDeleteRoom(sid, r)

\* ------------------------------------------- the hook's socket at the server
\* Socket s of the hook is connection s of the registry.  The server accepts
\* it and handles the auth frame its open handler has sent: onConnect, then
\* handleUserAuth, whose answer goes on its way to the hook.
AuthArrives(s) ==
    /\ sockets[s].readyState = "OPEN"
    /\ conn[s].status = "closed"
    /\ Len(sockets[s].inbox) < MaxInFlight
    /\ LET sessions == ValidSessions(sockets[s].sessionId, now)
           opened == [conn EXCEPT ![s] = [status |-> "open", att |-> NoAtt]]
       IN  IF sessions = {}
           THEN /\ conn' = opened
                /\ lastSignal' = [lastSignal EXCEPT ![s] = now]
                /\ sent' = <<To(s, AuthError("Invalid session"))>>
           ELSE LET session == CHOOSE x \in sessions : TRUE
                    cn == [opened EXCEPT ![s].att = UserAtt(session.user_id, now)]
                IN  /\ conn' = cn
                    /\ lastSignal' = [lastSignal EXCEPT ![s] = 0]
                    /\ sent' = OnMessageSends(cn, s,
                                  <<To(s, AuthSuccessUser(session.user_id))>>
                                  \o BroadcastUserStatus(cn, session.user_id, "online"))
    /\ sockets' = [sockets EXCEPT ![s].inbox = Append(@, sent'[1].frame)]
    /\ last' = Step("auth", s, sockets[s].sessionId, FALSE)
    /\ UNCHANGED <<now, messages, room_members, rooms, client, timers, closes, app>>
\* The interval of startHeartbeat fires for socket s: the ping reaches the
\* server; the hook drops the pong.
ClientPing(s) ==
    /\ client.heartbeatIntervalRef = s
    /\ sockets[s].readyState = "OPEN"
    /\ HandlePing(s)
\* The server sees that socket s has gone: onClose.
ConnCloses(s) ==
    /\ sockets[s].readyState # "OPEN"
    /\ OnClose(s)
\* The hook and the server: mounting with a session the server knows or one
\* it does not know, the socket events, authentication, pings, the sweep.
NextAuth ==
    \/ \E sid \in {"s1", "s0"} : Mount(sid)
    \/ \E t \in TimerIds : TimerFires(t)
    \/ \E s \in SocketIds : SocketOpen(s)
    \/ \E s \in SocketIds : SocketClose(s, FALSE)
    \/ \E s \in SocketIds : SocketMessage(s)
    \/ \E s \in SocketIds : AuthArrives(s)
    \/ \E s \in SocketIds : ClientPing(s)
    \/ \E s \in SocketIds : ConnCloses(s)
    \/ HeartbeatCheck
    \/ \E d \in {1, HEARTBEAT_TIMEOUT} : Tick(d)

\* Presence with three sockets: connecting, user authentication, closing.
NextPresence ==
    \/ \E c \in AllConnIds : OnConnect(c)
    \/ \E c \in AllConnIds, s \in {"s1", "s2"} : HandleUserAuth(c, s)
    \/ \E c \in AllConnIds : OnClose(c)

\* Everything that sends message content or presence: authentication, join
\* with history, messages over HTTP, from the bot and in the plugin format,
\* resynchronisation, closing.
NextContent ==
    \/ \E c \in ConnIds : OnConnect(c)
    \/ \E c \in ConnIds, s \in {"s1", "s2", "s0"} : HandleUserAuth(c, s)
    \/ \E c \in ConnIds : HandleBotAuth(c, ValidApiKey)
    \/ \E c \in ConnIds, r \in RoomIds : HandleJoinRoom(c, r)
    \/ \E r \in RoomIds : HandleSendMessage("s1", r)
    \/ \E c \in ConnIds, r \in RoomIds : HandleBotSendMessage(c, r, "ext-1")
    \/ \E c \in ConnIds, e \in PluginEnvelopes : HandlePluginMessage(c, e)
    \/ \E c \in ConnIds, k \in {"absent", "first"} :
          HandleSyncRequest(c, PickId(messages, k))
    \/ \E c \in ConnIds : OnClose(c)

Next ==
    \/ NextLive \/ NextRoom \/ NextStore \/ NextFrames \/ NextClient \/ NextRooms
    \/ NextSubs \/ NextAcks \/ NextDisplay \/ NextContent \/ NextPresence
    \/ NextAuth \/ NextCache

Spec == Init /\ [][Next]_vars
SpecLive == Init /\ [][NextLive]_vars
SpecRoom == Init /\ [][NextRoom]_vars
SpecJoin == Init /\ [][NextJoin]_vars
SpecOrder == Init /\ [][NextOrder]_vars
SpecStore == InitStore /\ [][NextStore]_vars
SpecFrames == InitStore /\ [][NextFrames]_vars
SpecClient == Init /\ [][NextClient]_vars
SpecRooms == Init /\ [][NextRooms]_vars
SpecSubs == Init /\ [][NextSubs]_vars
SpecAcks == Init /\ [][NextAcks]_vars
SpecDisplay == Init /\ [][NextDisplay]_vars
SpecContent == Init /\ [][NextContent]_vars
\* The reconnect cycle on a working network: a timeout that is set fires, the
\* close event of a socket the hook has closed is delivered, and a socket that
\* is connecting opens unless it is closed first.
CloseDelivered(s) == sockets[s].readyState = "CLOSING" /\ SocketClose(s, FALSE)
SpecStable ==
    /\ Init
    /\ [][NextReconnect]_vars
    /\ WF_vars(\E t \in TimerIds : TimerFires(t))
    /\ WF_vars(\E s \in SocketIds : CloseDelivered(s))
    /\ WF_vars(\E s \in SocketIds : SocketOpen(s))
SpecPresence == Init /\ [][NextPresence]_vars
SpecAuth == Init /\ [][NextAuth]_vars
SpecCache == Init /\ [][NextCache]_vars
SpecAdds == Init /\ [][NextAdds]_vars
\* A timeout that stays set fires.
SpecReconnect ==
    Init /\ [][NextReconnect]_vars /\ WF_vars(\E t \in TimerIds : TimerFires(t))

\* ------------------------------------------------------ reading the record
\* The frames the last step sent to socket c, in order.
FramesTo(c) ==
    LET mine == SelectSeq(sent, LAMBDA e : e.to = c)
    IN  [i \in 1..Len(mine) |-> mine[i].frame]
IsOpen(c) == conn[c].status = "open"
IsUser(c) == conn[c].att.type = "user"
IsBot(c) == conn[c].att.type = "bot"
\* The last step persisted a message and broadcast it.
Broadcasted ==
    \/ last.op = "http_send"
    \/ last.op \in {"send_message", "message"} /\ IsBot(last.c)
LastMsg == messages[Len(messages)]
\* f is the new_message event of the stored message m, unchanged.
IsEventOf(f, m) ==
    /\ f.type = "new_message"
    /\ f.message.id = m.id
    /\ f.message.room_id = m.room_id
    /\ f.message.user_id = m.user_id
    /\ f.message.content = m.content
    /\ f.message.created_at = m.created_at
    /\ f.message.source = m.source
    /\ f.user = m.user_id
Carries(f) == f.type \in {"new_message", "message"}
PersistentMember(c, roomId) == <<roomId, conn[c].att.id>> \in room_members

\* C1: a new-message event of room R is sent unchanged to every live User
\* connection whose identity is a persistent member of R, and to no User
\* connection whose identity is not (joinedRooms plays no part).
C1_MembersReceive ==
    Broadcasted =>
        \A c \in ConnIds :
            (IsOpen(c) /\ IsUser(c)) =>
                IF PersistentMember(c, LastMsg.room_id)
                THEN /\ Len(FramesTo(c)) = 1
                     /\ IsEventOf(FramesTo(c)[1], LastMsg)
                ELSE FramesTo(c) = <<>>

\* C2: every user-origin message reaches every live Bot connection in the
\* envelope {type: "message", message: {room_id, user_id, content, timestamp}},
\* whatever the room and the bot's subscribedRooms; a bot-origin message
\* reaches no Bot connection.
C2_BotAsymmetry ==
    Broadcasted =>
        \A c \in ConnIds :
            (IsOpen(c) /\ IsBot(c)) =>
                IF LastMsg.source = "user"
                THEN FramesTo(c) =
                        << [type |-> "message",
                            message |-> [room_id |-> LastMsg.room_id,
                                         user_id |-> LastMsg.user_id,
                                         content |-> LastMsg.content,
                                         timestamp |-> LastMsg.created_at]] >>
                ELSE \A i \in 1..Len(FramesTo(c)) : ~Carries(FramesTo(c)[i])

\* Socket c is a recipient of the broadcast of message m.
Entitled(c, m) ==
    \/ IsUser(c) /\ PersistentMember(c, m.room_id)
    \/ IsBot(c) /\ m.source = "user"
\* A recipient of m had already been closed by the server: its send fails.
SendFailed(m) == \E c \in ConnIds : conn[c].status = "closing" /\ Entitled(c, m)
\* C3: when the send to one recipient fails during a fan-out, every other
\* entitled connection still receives the event and the failure is not
\* surfaced to the originator (a bot that issued send_message still gets
\* message_sent and no error frame).
C3_FailureIsolation ==
    (Broadcasted /\ SendFailed(LastMsg)) =>
        /\ \A d \in ConnIds :
              (IsOpen(d) /\ Entitled(d, LastMsg)) =>
                  \E i \in 1..Len(FramesTo(d)) : Carries(FramesTo(d)[i])
        /\ ~last.threw
        /\ last.op = "send_message" =>
              /\ \E i \in 1..Len(FramesTo(last.c)) : FramesTo(last.c)[i].type = "message_sent"
              /\ \A i \in 1..Len(FramesTo(last.c)) : FramesTo(last.c)[i].type # "error"

\* The time of the last liveness signal of socket c.
LastLiveness(c) ==
    IF conn[c].att.type = "none" THEN lastSignal[c] ELSE conn[c].att.lastPing
\* C4: at a sweep, a live connection of any kind is closed by the monitor
\* if and only if now - lastLiveness > timeout, and the monitor sends no frame.
C4_SweepClosesIdle ==
    [][HeartbeatCheck =>
          /\ sent' = <<>>
          /\ \A c \in ConnIds :
                conn[c].status = "open" =>
                    (conn'[c].status # "open" <=> now - LastLiveness(c) > 60000)]_vars

\* C5: on every termination of a connection, if and only if it had reached
\* the User state, user_offline with its identity is sent to all other live
\* User connections and to no Bot connection.
C5_OfflineOnClose ==
    last.op \in {"close", "peer_close"} =>
        \A c \in ConnIds \ {last.c} :
            IF last.arg \in UserIds /\ IsOpen(c) /\ IsUser(c)
            THEN FramesTo(c) = << [type |-> "user_offline", user_id |-> last.arg] >>
            ELSE FramesTo(c) = <<>>

\* The last step was a user auth that replied auth_success.
AuthSucceeded ==
    /\ last.op = "auth"
    /\ \E i \in 1..Len(sent) : sent[i].frame.type = "auth_success"
\* C6: a user auth frame with a valid session makes the connection
\* User{identity, subscribedRooms = empty, lastLiveness = now}, replies
\* auth_success and sends user_online(identity) to every other live User
\* connection.
C6_UserAuthSuccess ==
    AuthSucceeded =>
        LET u == conn[last.c].att.id
        IN  /\ conn[last.c] = [status |-> "open",
                               att |-> [type |-> "user", id |-> u, rooms |-> <<>>,
                                        lastPing |-> now]]
            /\ FramesTo(last.c) = << [type |-> "auth_success", user_id |-> u] >>
            /\ \A c \in ConnIds \ {last.c} :
                  IF IsOpen(c) /\ IsUser(c)
                  THEN FramesTo(c) = << [type |-> "user_online", user_id |-> u] >>
                  ELSE FramesTo(c) = <<>>

\* Session sid is not stored, or has expired.
NoLiveSession(sid) == \A s \in Sessions : s.id = sid => s.expires_at <= now
\* C7: a user auth frame whose session is missing or expired yields exactly
\* one auth_error to the sender, leaves every connection record unchanged,
\* does not close the connection and broadcasts nothing.
C7_BadSessionRejected ==
    [][\A c \in ConnIds, sid \in SessionIds :
          (HandleUserAuth(c, sid) /\ NoLiveSession(sid)) =>
              /\ Len(sent') = 1
              /\ sent'[1].to = c
              /\ sent'[1].frame.type = "auth_error"
              /\ conn' = conn
              /\ conn'[c].status = "open"]_vars
C7_Witness ==
    /\ last.op = "auth"
    /\ sent = <<To(last.c, AuthError("Invalid session"))>>
    /\ conn[last.c] = [status |-> "open", att |-> NoAtt]
    /\ now > 0

\* C8: a bot auth frame with a wrong api_key yields auth_error and closes
\* the connection without making it a Bot; the right key makes it
\* Bot{subscribedRooms = empty, lastLiveness = now}, replies auth_success and
\* broadcasts nothing.
C8_BotAuth ==
    [][\A c \in ConnIds, k \in ApiKeys :
          HandleBotAuth(c, k) =>
              /\ \A d \in ConnIds \ {c} : conn'[d] = conn[d]
              /\ Len(sent') = 1
              /\ sent'[1].to = c
              /\ IF k # "default-bot-api-key"
                 THEN /\ sent'[1].frame.type = "auth_error"
                      /\ conn'[c].status = "closing"
                      /\ conn'[c].att = conn[c].att
                 ELSE /\ sent'[1].frame.type = "auth_success"
                      /\ conn'[c] = [status |-> "open",
                                     att |-> [type |-> "bot", id |-> "bot",
                                              rooms |-> <<>>, lastPing |-> now]]]_vars
C8_Witness ==
    /\ last.op = "bot_auth"
    /\ conn[last.c].status = "closing"
    /\ conn[last.c].att.type # "bot"
    /\ sent = <<To(last.c, AuthError("Invalid API key"))>>

\* An auth frame of either variant handled on socket c.
ReAuth(c) ==
    \/ \E sid \in SessionIds : HandleUserAuth(c, sid)
    \/ \E k \in ApiKeys : HandleBotAuth(c, k)
\* C9: authentication is irreversible: an auth frame (user or bot variant,
\* valid or not) on an already-authenticated connection is rejected with an
\* error frame and changes no state.
C9_ReAuthRejected ==
    [][\A c \in ConnIds :
          (conn[c].att.type # "none" /\ ReAuth(c)) =>
              /\ conn' = conn
              /\ Len(sent') = 1
              /\ sent'[1].to = c
              /\ sent'[1].frame.type = "error"]_vars

\* C10: a join_room for a room the identity is not a persistent member of,
\* or from a connection that is not a User, is answered with exactly one
\* error frame, sends neither room_joined nor room_messages, and changes no
\* state.
C10_JoinRejected ==
    [][\A c \in ConnIds, r \in RoomIds :
          ((conn[c].att.type # "user" \/ <<r, conn[c].att.id>> \notin room_members)
             /\ HandleJoinRoom(c, r)) =>
              /\ Len(sent') = 1
              /\ sent'[1].to = c
              /\ sent'[1].frame.type = "error"
              /\ UNCHANGED <<conn, lastSignal, now, messages, room_members>>]_vars
C10_Witness ==
    /\ last.op = "join_room"
    /\ IsUser(last.c)
    /\ conn[last.c].att.id = "u2"
    /\ sent = <<To(last.c, ErrorFrame("Not a member of this room"))>>

\* ---------------------------------------------------- history and resync
Elems(q) == {q[i] : i \in 1..Len(q)}
RowsIn(ms, roomIds) == {m \in Elems(ms) : m.room_id \in roomIds}
Ascending(out) ==
    \A i \in 1..(Len(out) - 1) : out[i].created_at <= out[i + 1].created_at
\* out lists, without repetition, rows of the set rows, and no row left out
\* is newer than a listed one.
NewestOf(out, rows) ==
    /\ Elems(out) \subseteq rows
    /\ Cardinality(Elems(out)) = Len(out)
    /\ \A m \in rows \ Elems(out) : m.created_at <= out[1].created_at
\* users lists each author of out exactly once, the bot as the bot record.
AuthorsResolved(users, out) ==
    /\ {u.id : u \in Elems(users)} = {m.user_id : m \in Elems(out)}
    /\ Cardinality({u.id : u \in Elems(users)}) = Len(users)

\* C11: a successful join_room sends the requester, and nobody else,
\* room_joined and then one room_messages frame whose messages are the
\* min(50, n) messages of the room with the greatest created_at, in ascending
\* created_at order, and whose users are the distinct authors of those
\* messages.
C11_JoinHistory ==
    [][\A c \in ConnIds, r \in RoomIds :
          (/\ conn[c].att.type = "user"
           /\ <<r, conn[c].att.id>> \in room_members
           /\ last'.op = "join_room"
           /\ HandleJoinRoom(c, r)) =>
              /\ Len(sent') = 2
              /\ sent'[1] = [to |-> c, frame |-> [type |-> "room_joined", room_id |-> r]]
              /\ sent'[2].to = c
              /\ sent'[2].frame.type = "room_messages"
              /\ sent'[2].frame.room_id = r
              /\ Len(sent'[2].frame.messages)
                    = Min(50, Cardinality(RowsIn(messages, {r})))
              /\ NewestOf(sent'[2].frame.messages, RowsIn(messages, {r}))
              /\ Ascending(sent'[2].frame.messages)
              /\ AuthorsResolved(sent'[2].frame.users, sent'[2].frame.messages)]_vars
\* A join of r1 on the large store: 50 of its rows are sent, the others not.
C11_Witness ==
    /\ last.op = "join_room"
    /\ Len(sent) = 2
    /\ sent[2].frame.room_id = "r1"
    /\ Len(sent[2].frame.messages) = 50
    /\ Len(SelectSeq(messages, LAMBDA m : m.room_id = "r1")) > 50
    /\ \E i \in 1..Len(sent[2].frame.users) : sent[2].frame.users[i].id = "bot"

\* The last step answered a sync_request of a User connection.
Synced == last.op = "sync_request" /\ IsUser(last.c)
\* The rooms the identity is a persistent member of.
RoomsOf(userId) == {r \in RoomIds : <<r, userId>> \in room_members}
\* The stored messages a sync_request naming id is to draw from.
Newer(userId, id) ==
    LET named == {m \in Elems(messages) : m.id = id}
        inRooms == RowsIn(messages, RoomsOf(userId))
    IN  IF id # 0 /\ named # {}
        THEN {m \in inRooms : \A l \in named : m.created_at > l.created_at}
        ELSE inRooms
\* out lists, without repetition, rows of the set rows, and no row left out
\* is older than a listed one.
OldestOf(out, rows) ==
    /\ Elems(out) \subseteq rows
    /\ Cardinality(Elems(out)) = Len(out)
    /\ \A m \in rows \ Elems(out) : m.created_at >= out[Len(out)].created_at
\* The one frame of the answer is a sync_response with the right page.
SyncPage ==
    /\ Len(sent) = 1
    /\ sent[1].to = last.c
    /\ sent[1].frame.type = "sync_response"
    /\ Len(sent[1].frame.messages)
          = Min(100, Cardinality(Newer(conn[last.c].att.id, last.arg)))
    /\ OldestOf(sent[1].frame.messages, Newer(conn[last.c].att.id, last.arg))
    /\ Ascending(sent[1].frame.messages)
    /\ \A m \in Elems(sent[1].frame.messages) :
          <<m.room_id, conn[last.c].att.id>> \in room_members
\* The answer to the same request, repeated one clock unit later on the same
\* store by an engine with the same tie rule.
Repeated(tie) ==
    SyncResponse(messages, room_members, conn[last.c].att.id, last.arg, now + 1, tie)
Answered(tie) ==
    sent[1].frame =
        SyncResponse(messages, room_members, conn[last.c].att.id, last.arg, now, tie)

\* C12 (as stated): a sync_request of a User connection is answered with one
\* sync_response, to the requester only, holding the first min(100, n)
\* messages in ascending created_at order of the member-room messages newer
\* than last_message_id, and repeating the request with no store change
\* returns the same response.
C12_SyncSameResponse ==
    Synced =>
        /\ SyncPage
        /\ \A tie \in TieRules : Answered(tie) => Repeated(tie) = sent[1].frame

\* C12 (amended): as above, but the repeated request returns the same
\* messages and the same authors; the bot's record in users carries the time
\* of the request as its created_at.
C12_SyncSameMessages ==
    Synced =>
        /\ SyncPage
        /\ \A tie \in TieRules :
              Answered(tie) =>
                  /\ Repeated(tie).messages = sent[1].frame.messages
                  /\ [i \in 1..Len(Repeated(tie).users) |-> Repeated(tie).users[i].id]
                        = [i \in 1..Len(sent[1].frame.users) |-> sent[1].frame.users[i].id]
\* A sync on the large store, naming the first message: a full page.
C12_Witness ==
    /\ Synced
    /\ last.arg = 1
    /\ Len(sent) = 1
    /\ Len(sent[1].frame.messages) = 100
    /\ Cardinality(Newer(conn[last.c].att.id, 1)) > 100

\* The member-room messages stored after the message named by id.
StoredAfter(userId, id) ==
    {messages[j] : j \in {k \in 1..Len(messages) :
        /\ messages[k].room_id \in RoomsOf(userId)
        /\ \E p \in 1..(k - 1) : messages[p].id = id}}

\* C13: a sync_request naming the last message m the client has received
\* returns every message persisted after m in the identity's rooms, whenever
\* at most 100 such messages exist, also when one of them has the same
\* created_at as m.
C13_ResyncRecovers ==
    (/\ Synced
     /\ \E m \in RowsIn(messages, RoomsOf(conn[last.c].att.id)) : m.id = last.arg
     /\ Cardinality(StoredAfter(conn[last.c].att.id, last.arg)) <= 100) =>
        StoredAfter(conn[last.c].att.id, last.arg) \subseteq Elems(sent[1].frame.messages)

\* -------------------------------------------------- acknowledgement, frames
AckChoices == {"first", "second", "unknown"}
\* Row m2 is row m with at most the acknowledged flag changed.
SameButFlag(m, m2) == [m2 EXCEPT !.acknowledged = m.acknowledged] = m

C16_UnknownTypeIgnored ==
    [][\A c \in ConnIds, f \in {"unknown-type", "no-type", "json-number"} :
          OnMessage(c, f) =>
              /\ sent' = <<>>
              /\ UNCHANGED <<conn, lastSignal, now, messages, room_members>>]_vars
C16_Witness ==
    /\ last.op = "frame"
    /\ last.arg = "unknown-type"
    /\ IsUser(last.c)
    /\ IsOpen(last.c)
    /\ sent = <<>>

\* ------------------------------------------------------- bot send, ordering
\* C17: a send_message frame from a Bot connection persists one new message
\* of that room with author 'bot' and origin 'bot', broadcasts it as
\* new_message to every live User connection of a persistent member of the
\* room and to no Bot connection, and replies to the sending bot with
\* message_sent carrying the new message id and the same external_id.
C17_BotSendMessage ==
    (last.op = "send_message" /\ IsBot(last.c)) =>
        /\ LastMsg.user_id = "bot"
        /\ LastMsg.source = "bot"
        /\ LastMsg.external_id = "ext-1"
        /\ \A d \in ConnIds :
              (IsOpen(d) /\ IsUser(d) /\ PersistentMember(d, LastMsg.room_id)) =>
                  /\ Len(FramesTo(d)) = 1
                  /\ IsEventOf(FramesTo(d)[1], LastMsg)
        /\ \A d \in ConnIds :
              IsBot(d) => \A i \in 1..Len(FramesTo(d)) : ~Carries(FramesTo(d)[i])
        /\ FramesTo(last.c) =
              << [type |-> "message_sent", message_id |-> LastMsg.id,
                  external_id |-> "ext-1"] >>

\* C18: within a room, every connection receives the new_message events in
\* the order of the messages' created_at in the store: an event that is sent
\* is of a message just stored, and no message already stored in its room
\* (hence no event already received) has a greater created_at.
C18_RoomOrder ==
    [][\A i \in 1..Len(sent') :
          sent'[i].frame.type = "new_message" =>
              /\ \A m \in Elems(messages) : m.id # sent'[i].frame.message.id
              /\ \E m \in Elems(messages') :
                    /\ m.id = sent'[i].frame.message.id
                    /\ m.created_at = sent'[i].frame.message.created_at
                    /\ m.room_id = sent'[i].frame.message.room_id
              /\ \A m \in Elems(messages) :
                    m.room_id = sent'[i].frame.message.room_id =>
                        m.created_at <= sent'[i].frame.message.created_at]_vars
\* A second message of r1, stored later than the first, has been delivered.
C18_Witness ==
    /\ Len(messages) >= 2
    /\ messages[Len(messages)].room_id = "r1"
    /\ messages[Len(messages) - 1].room_id = "r1"
    /\ messages[Len(messages) - 1].created_at < messages[Len(messages)].created_at
    /\ \E i \in 1..Len(sent) :
          /\ sent[i].frame.type = "new_message"
          /\ sent[i].frame.message.id = messages[Len(messages)].id

\* ------------------------------------------------------- client: reconnect
\* The timeout the close handler has just set.
Scheduled(delay) ==
    /\ client'.reconnectTimeoutRef # 0
    /\ ~timers[client'.reconnectTimeoutRef].pending
    /\ timers'[client'.reconnectTimeoutRef].pending
    /\ timers'[client'.reconnectTimeoutRef].delay = delay

\* C19: at the n-th socket close in a row with no open in between, the hook,
\* unless torn down, schedules the reconnect after min(3000 * 2^(n-1), 30000)
\* ms; only an open event resets the attempt counter, and it resets it to 0.
C19_Backoff ==
    [][/\ (last'.op = "socket_close" /\ ~client.isClosed) =>
              Scheduled(Min(3000 * 2^(closes' - 1), 30000))
       /\ (client'.reconnectAttempt = 0 /\ client.reconnectAttempt # 0) =>
              last'.op = "socket_open"
       /\ last'.op = "socket_open" => client'.reconnectAttempt = 0]_vars
\* The fifth close in a row: the delay has reached the maximum.
C19_Witness ==
    /\ last.op = "socket_close"
    /\ closes = 5
    /\ client.reconnectTimeoutRef # 0
    /\ timers[client.reconnectTimeoutRef].delay = 30000

\* The sockets of the hook that are connecting or open.
Attempts == {s \in SocketIds : sockets[s].readyState \in {"CONNECTING", "OPEN"}}

\* C20: at any time at most one socket created by the hook is connecting or
\* open.
C20_Serialized == Cardinality(Attempts) <= 1

\* ------------------------------------------------- rejoin, liveness, posting
\* How often room r occurs in the list joinedRooms.
Occurrences(joinedRooms, r) ==
    Cardinality({i \in 1..Len(joinedRooms) : joinedRooms[i] = r})

\* C27: for a User connection and a room r it is a persistent member of,
\* join_room(r), leave_room(r), join_room(r) leaves subscribedRooms as after
\* the single join_room(r): when a leave_room(r) undoes a join, joining again
\* gives the rooms held before the leave, r once and every other room as it
\* was.
C27_RejoinIdempotent ==
    [][\A r \in RoomIds :
          (/\ last'.op = "leave_room"
           /\ IsUser(last'.c)
           /\ <<r, conn[last'.c].att.id>> \in room_members
           /\ Includes(conn[last'.c].att.rooms, r)
           /\ ~Includes(conn'[last'.c].att.rooms, r)) =>
              LET before == conn[last'.c].att.rooms
                  again == JoinedRooms(conn'[last'.c].att.rooms, r)
              IN  /\ Occurrences(again, r) = 1
                  /\ \A x \in RoomIds : Occurrences(again, x) = Occurrences(before, x)
                  /\ Filter(again, r) = Filter(before, r)]_vars
\* A leave_room has removed a room from a connection that keeps another one.
C27_Witness ==
    /\ last.op = "leave_room"
    /\ IsUser(last.c)
    /\ conn[last.c].att.rooms = <<"r2">>
    /\ sent = <<To(last.c, RoomLeft("r1"))>>

\* C28: every ping and every heartbeat frame received on a live connection
\* sets its lastLiveness to the current time; a ping is answered with one
\* pong to the sender, a heartbeat with no frame, and neither with an error.
C28_LivenessSignals ==
    (last.op \in {"ping", "heartbeat"}) =>
        /\ conn[last.c].att.lastPing = now
        /\ last.op = "ping" => sent = <<To(last.c, Pong(now))>>
        /\ last.op = "heartbeat" => sent = <<>>

\* C29: a user's request to post into room R stores and broadcasts a message
\* only if the user is a persistent member of R; otherwise the store is
\* unchanged and no connection is sent a message.
C29_PostNeedsMembership ==
    [][(last'.op = "http_send") =>
          \/ /\ messages' # messages
             /\ <<messages'[Len(messages')].room_id, messages'[Len(messages')].user_id>>
                   \in room_members
          \/ /\ messages' = messages
             /\ sent' = <<>>]_vars

\* ------------------------------------------------------------ private rooms
\* The private rooms both users are members of.
Pairs == {p \in SUBSET UsersTable : Cardinality(p) = 2}
PrivateOf(rs, rm, p) ==
    {r \in rs : r.type = "private" /\ \A u \in p : <<r.id, u>> \in rm}

\* C30: after any sequence of create-room requests at most one private room
\* exists for each unordered pair of users; a request for a pair that has a
\* private room, the ids in either order, returns such a room and creates
\* nothing.
C30_OnePrivateRoomPerPair ==
    [][(last'.op = "create_room") =>
          /\ \A p \in Pairs : Cardinality(PrivateOf(rooms', room_members', p)) <= 1
          /\ \A p \in Pairs :
                PrivateOf(rooms, room_members, p) # {} =>
                    PrivateOf(rooms', room_members', p) \subseteq rooms]_vars

Settled ==
    /\ client.mounted = "yes"
    /\ client.connectionState = "connected"
    /\ client.socketRef # 0
    /\ sockets[client.socketRef].readyState = "OPEN"
    /\ sockets[client.socketRef].inbox = <<>>

\* C24: when the hook is connected and every frame in flight is handled, the
\* server's subscribedRooms for its connection holds every room the caller
\* has joined with joinRoom and not left since, whether the socket was open
\* at the call or not.
C24_SubscriptionsSurvive ==
    Settled => \A r \in client.wanted :
                  Includes(sockets[client.socketRef].subscribed, r)

\* ------------------------------------------------- client: acknowledgements
\* The acknowledgements in q that were queued, in the order of q.
Queued(q) == SelectSeq(q, LAMBDA id : id \in client.buffered)

\* C22: an acknowledgement requested while no socket is open is queued and,
\* once the hook is connected again and its effect has run, has been sent:
\* the queue is empty; no acknowledgement is sent twice; the queued ones are
\* sent in the order of their requests; and each requested one is in the
\* queue or has been sent.
C22_AcksFlushed ==
    /\ (Settled /\ ~client.flushDue) => client.pendingAcks = <<>>
    /\ \A i, j \in 1..Len(client.ackLog) :
          i < j => client.ackLog[i] # client.ackLog[j]
    /\ \A i, j \in 1..Len(Queued(client.ackLog)) :
          i < j => Queued(client.ackLog)[i] < Queued(client.ackLog)[j]
    /\ \A id \in 1..client.requested :
          \/ \E i \in 1..Len(client.ackLog) : client.ackLog[i] = id
          \/ \E i \in 1..Len(client.pendingAcks) : client.pendingAcks[i] = id

\* --------------------------------------------------- client: message list
\* C26: whatever new_message, room_messages and sync_response frames and
\* history loads reach the page, its list never shows a stored message twice:
\* no two entries have the same id, and no temp entry is shown next to the
\* stored copy of the message it stands for.
C26_NoDuplicateDisplay ==
    \A i, j \in 1..Len(app.messages) :
        i < j => /\ app.messages[i].id # app.messages[j].id
                 /\ ~(/\ app.messages[i].stored # 0
                      /\ app.messages[i].stored = app.messages[j].stored)

\* ------------------------------------------------------ client: after close
\* The hook has a socket that is connecting.
Attempting == \E s \in SocketIds : sockets[s].readyState = "CONNECTING"
\* A socket has just closed on a hook that is set up with a session.
JustClosed == last.op = "socket_close" /\ ~client.isClosed /\ client.sessionId # ""

\* C25: when a socket closes on a hook that is not torn down and has a
\* session, the heartbeat is stopped, connectionState is "disconnected" and a
\* reconnect timeout is pending in reconnectTimeoutRef; a timeout that fires
\* on a hook not torn down leaves a connection attempt in progress or a
\* socket open; and after such a close, unless the hook is torn down or loses
\* its session, a socket is eventually connecting.
C25_ReconnectAfterClose ==
    /\ [][(JustClosed' =>
              (/\ client'.heartbeatIntervalRef = 0
               /\ client'.connectionState = "disconnected"
               /\ client'.reconnectTimeoutRef # 0
               /\ timers'[client'.reconnectTimeoutRef].pending))
          /\ ((last'.op = "timer" /\ ~client.isClosed) =>
                 (\/ Attempting'
                  \/ (/\ client'.socketRef # 0
                      /\ sockets'[client'.socketRef].readyState = "OPEN")))]_vars
    /\ (JustClosed ~> (Attempting \/ client.isClosed \/ client.sessionId = ""))
\* The timeout set by a close has fired and the hook is connecting again.
C25_Witness ==
    /\ last.op = "timer"
    /\ client.connectionState = "reconnecting"
    /\ client.reconnectAttempt = 2
    /\ Attempting

\* ------------------------------------------------------- client: teardown
\* C21: the unmount cancels the reconnect timeout and the heartbeat and closes
\* the socket; after a teardown the close event of the socket it closed
\* changes no connectionState, schedules no reconnect and creates no socket,
\* also when the effect has run again in between, and no timeout firing
\* after the unmount creates a socket.
C21_Teardown ==
    [][/\ (last'.op = "unmount") =>
              /\ client'.heartbeatIntervalRef = 0
              /\ client.reconnectTimeoutRef # 0 =>
                     ~timers'[client.reconnectTimeoutRef].pending
              /\ client.socketRef # 0 =>
                     sockets'[client.socketRef].readyState \notin {"CONNECTING", "OPEN"}
       /\ (last'.op = "socket_close" /\ sockets[last'.c].torn) =>
              /\ client'.connectionState = client.connectionState
              /\ timers' = timers
              /\ Attempts' \subseteq Attempts
       /\ (last'.op = "timer" /\ client.mounted = "gone") =>
              Attempts' \subseteq Attempts]_vars

\* C31: every room of the store has at least one member, and every private
\* room has exactly two.
C31_RoomsHaveMembers ==
    \A r \in rooms :
        /\ MemberIds(room_members, r.id) # {}
        /\ r.type = "private" => Cardinality(MemberIds(room_members, r.id)) = 2

\* ------------------------------------------- server: unauthenticated frames
\* The operations that handle a frame of a socket.
FrameOps == {"auth", "bot_auth", "ping", "heartbeat", "join_room", "leave_room",
             "sync_request", "message_ack", "subscribe", "unsubscribe",
             "send_message", "message", "frame"}
\* The step handles a frame of a connection that had no attachment.
FromUnauthenticated ==
    /\ last'.op \in FrameOps
    /\ last'.c \in ConnIds
    /\ conn[last'.c].att.type = "none"
\* C32: a frame of an unauthenticated connection changes no message, no
\* acknowledged flag, no membership and no other connection's record, and
\* every frame it causes goes to its sender; only an auth frame changes the
\* sender's own record or reaches peers.
C32_UnauthenticatedInert ==
    [][FromUnauthenticated =>
          /\ messages' = messages
          /\ room_members' = room_members
          /\ rooms' = rooms
          /\ \A d \in ConnIds \ {last'.c} : conn'[d] = conn[d]
          /\ last'.op \notin {"auth", "bot_auth"} =>
                /\ conn'[last'.c] = conn[last'.c]
                /\ \A i \in 1..Len(sent') : sent'[i].to = last'.c]_vars

\* ----------------------------------------- server: who receives content
ContentTypes == {"new_message", "message", "room_messages", "sync_response",
                 "user_online", "user_offline"}
\* C33: no frame with message content or presence goes to a connection that
\* has no attachment, that is, that has not authenticated since it connected.
C33_ContentToAuthenticated ==
    \A i \in 1..Len(sent) :
        sent[i].frame.type \in ContentTypes => conn[sent[i].to].att.type # "none"
\* An authenticated socket got content while another open one had no
\* attachment and got nothing.
C33_Witness ==
    /\ \E i \in 1..Len(sent) : sent[i].frame.type = "new_message"
    /\ \E c \in ConnIds :
          /\ conn[c].status = "open"
          /\ conn[c].att.type = "none"
          /\ \A i \in 1..Len(sent) : sent[i].to # c

\* ------------------------------------------- server: messages over sockets
\* C34: a send_message frame or a plugin message envelope of a connection
\* that is not a bot stores nothing and sends one error frame, to its sender;
\* a step that handles a socket frame stores a message only for a bot
\* connection, and the row has author "bot" and origin "bot" whatever user_id
\* the envelope names.
C34_OnlyBotsCreate ==
    [][(last'.op \in FrameOps /\ last'.c \in ConnIds) =>
          /\ (last'.op \in {"send_message", "message"}
                  /\ conn[last'.c].att.type # "bot") =>
                /\ messages' = messages
                /\ Len(sent') = 1
                /\ sent'[1].to = last'.c
                /\ sent'[1].frame.type = "error"
          /\ Len(messages') > Len(messages) =>
                /\ conn[last'.c].att.type = "bot"
                /\ Len(messages') = Len(messages) + 1
                /\ messages'[Len(messages')].user_id = "bot"
                /\ messages'[Len(messages')].source = "bot"]_vars
\* The bot stored a message from an envelope that names u1 as the author.
C34_Witness ==
    /\ last.op = "message"
    /\ last.arg = "u1"
    /\ conn[last.c].att.type = "bot"
    /\ messages # <<>>
    /\ messages[Len(messages)].user_id = "bot"

\* ------------------------------------------------ server: presence of a user
\* The user has a live User connection.
Present(u) ==
    \E c \in AllConnIds :
        conn[c].status = "open" /\ conn[c].att.type = "user" /\ conn[c].att.id = u
\* C35: a user_offline event of a user is sent only when the user has no
\* live User connection left.
C35_OfflineWhenGone ==
    \A i \in 1..Len(sent) :
        sent[i].frame.type = "user_offline" => ~Present(sent[i].frame.user_id)

\* ------------------------------------------------------ client: heartbeat
\* C37: whenever the socket in socketRef is open, the heartbeat interval of
\* that socket is armed.
C37_HeartbeatArmed ==
    (client.socketRef # 0 /\ sockets[client.socketRef].readyState = "OPEN") =>
        client.heartbeatIntervalRef = client.socketRef

\* ---------------------------------------------------- client: stabilising
\* The step tears the hook down, or closes a socket the hook has not closed:
\* a failed attempt or a close by the server.
Disturbed ==
    \/ last'.op \in {"unmount", "session"}
    \/ /\ last'.op = "socket_close"
       /\ sockets[last'.c].readyState \in {"CONNECTING", "OPEN"}
\* The hook reports connected and the socket in socketRef is open.
Stable ==
    /\ client.connectionState = "connected"
    /\ client.socketRef # 0
    /\ sockets[client.socketRef].readyState = "OPEN"
\* C38: if from some point on the hook stays set up with a session, no
\* attempt fails and the server closes no socket, then from some point on the
\* hook is connected for ever.
C38_Stabilizes ==
    (/\ <>[](client.mounted = "yes" /\ client.sessionId # "")
     /\ <>[][~Disturbed]_vars)
        => <>[]Stable

\* --------------------------------------------- client: connected means known
\* C36: when the hook reports connected on an open socket whose auth frame
\* the server has handled, and no frame is on its way to the hook, the server
\* holds a user attachment for the connection.
C36_ConnectedIsAuthenticated ==
    (/\ client.connectionState = "connected"
     /\ client.socketRef # 0
     /\ sockets[client.socketRef].readyState = "OPEN"
     /\ sockets[client.socketRef].inbox = <<>>
     /\ conn[client.socketRef].status = "open")
        => conn[client.socketRef].att.type = "user"

\* ------------------------------------------------- client: the room on show
\* The entries of list cur that list prev does not hold.
Added(prev, cur) ==
    {cur[i] : i \in 1..Len(cur)} \ {prev[i] : i \in 1..Len(prev)}
\* C39: a new_message, room_messages or sync_response frame adds to the
\* displayed list only messages of the selected room, and writes into the
\* cached list of the selected room only messages of that room.
C39_SelectedRoomOnly ==
    [][last'.op \in {"new_message", "room_messages", "sync_response"} =>
          /\ \A m \in Added(app.messages, app'.messages) :
                m.room_id = app.selectedRoom
          /\ app.selectedRoom # "" =>
                \A m \in Added(app.cache[app.selectedRoom],
                               app'.cache[app.selectedRoom]) :
                    m.room_id = app.selectedRoom]_vars

\* ------------------------------------------------- client: the local cache
IdsOf(data) == {data[i].id : i \in 1..Len(data)}
\* C40: when an addMessage call ends, the cached list of every room still
\* holds every message it held, the list holds the message of the call, and
\* it holds no message twice and is sorted by created_at.
C40_NoLostUpdate ==
    [][last'.op = "save_room_data" =>
          /\ \E r \in RoomIds : last'.arg \in IdsOf(app'.cache[r])
          /\ \A r \in RoomIds :
                LET data == app'.cache[r]
                IN  /\ IdsOf(app.cache[r]) \subseteq IdsOf(data)
                    /\ \A i, j \in 1..Len(data) :
                          i < j => /\ data[i].id # data[j].id
                                  /\ data[i].created_at <= data[j].created_at]_vars
====
